---- MODULE Spec2Model ----
(***************************************************************************)
(* flowy: the decision runtime and decision buffer of flowy/task.py        *)
(* (_SWFWorkflow, SWFScheduler, SWFWorkflow, Task.__call__) and the        *)
(* history folder of flowy/backend/swf.py (load_events).                   *)
(*                                                                         *)
(* Spec      the runtime, turn after turn, against a service that records  *)
(*           the decisions it accepted and later finalizes them.           *)
(*           The snapshot holds the integer call ids that                  *)
(*           _SWFWorkflow.__init__ keeps.                                  *)
(* SpecFold  load_events, one event per step, over the histories the       *)
(*           service produces for the keys of backend/swf.py, the keys     *)
(*           being text; the history ends with _SWFWorkflow.__init__       *)
(*           converting the folded keys.                                   *)
(* SpecReplay  turns of a tagged workflow on a snapshot that does not      *)
(*           change.                                                       *)
(* SpecPoll  poll_next_decision and the pages of a history: events,         *)
(*           poll_response_page, the loop of start_swf_workflow_worker.    *)
(* SpecWorker  start_swf_workflow_worker: the registration of the types    *)
(*           of the registry, then the polling.                            *)
(* SpecNames  set_alternate_name on descriptor objects.                    *)
(* SpecActivity  Task.__call__ of SWFActivity, task after task.            *)
(* SpecOptions  the options scopes of a workflow body and its restarts.    *)
(* SpecLive  a body that makes its calls and returns, turn after turn to   *)
(*           the end of the execution, under fairness.                     *)
(***************************************************************************)
EXTENDS Integers, Sequences, FiniteSets, TLC

\* ------------------------------------------------------------------ bounds
\* logical calls a workflow body makes in one turn
MaxCalls == 1
\* largest retry budget of a call
MaxRetry == 1
\* decision tasks dispatched to the worker
MaxTurns == 2
\* call keys that occur in a folded history
MaxKeys == 2
\* events of a folded history after WorkflowExecutionStarted
MaxEvents == 6
\* pages of the history of a decision task
MaxPages == 3
\* decision tasks the worker loop polls
MaxPolls == 2
\* types in the registry of a worker
MaxTypes == 2
\* descriptor objects alive at a time
MaxObjects == 3
\* activity tasks a worker runs
MaxTasks == 3
\* options scopes a body enters
MaxScopes == 2

\* ------------------------------------------------------- program constants
\* SWFWorkflow.__init__: rate_limit = 64 - len(running)
RateLimit == 64
\* SWFScheduler.fail: str(reason)[:256]
ReasonSize == 256
\* _tags: list(set(...))[:5]
TagLimit == 5
\* poll_response_page: for _ in range(7)
PageRetries == 7
\* _INPUT_SIZE = _RESULT_SIZE = 32768
ResultSize == 32768

\* _TIMEDOUT, _RUNNING, _ERROR, _FOUND, _NOTFOUND = range(5); RAISED stands for
\* the ValueError of list.index leaving _search_result
TIMEDOUT == "TIMEDOUT"
RUNNING == "RUNNING"
ERROR == "ERROR"
FOUND == "FOUND"
NOTFOUND == "NOTFOUND"
RAISED == "RAISED"

\* Python's None in a returned tuple and as the result of a fired timer
None == 0 - 1

VARIABLES
    \* the workflow body: the logical calls it makes, in source order
    prog,
    \* the snapshot handed to _SWFWorkflow.__init__ (ids converted by int())
    _running, _timedout, _results, _errors, _order,
    \* the service: pending timers, decisions accepted and not yet recorded,
    \* execution closed by a terminal decision
    timers, pending, wfClosed,
    \* the timer ids the history holds a StartTimerFailed event for
    refused,
    \* Task.__call__: "idle" between decision tasks, "body" while run() runs,
    \* "done" once it returned; decision tasks dispatched so far
    phase, pc, turn,
    \* _SWFWorkflow
    _call_id, _scheduled,
    \* SWFScheduler
    _decisions, _closed, _rate_limit,
    \* respond_decision_task_completed calls of the current decision task
    sent,
    \* observation of the last _schedule call and of the way the body ended
    last, ret,
    \* <<call index, call id>> of the decisions the rate limit dropped in
    \* this turn, and in earlier turns and not appended since
    dropping, dropped,
    \* load_events: the buckets it builds and its event2call
    running, timedout, results, errors, order, event2call,
    \* the history being folded: the id of its last event, what the service
    \* did with each call key, the keys its finalizing events named, the
    \* event load_events read last, the exception that ended the fold
    eventId, life, finals, event, foldError,
    \* poll_next_decision and the worker loop around it: where they are, the
    \* pages of the decision task polled, what the generator events() yielded
    poller,
    \* start_swf_workflow_worker before its loop: the types of the registry
    \* being registered, the calls made for the type at hand, how it ended
    registrar,
    \* the descriptor objects constructed so far and the last call of
    \* set_alternate_name on one of them
    naming,
    \* the activity worker: the SWFActivity task at hand, what its run did,
    \* what __call__ returned and the responses sent so far
    activity,
    \* the options scopes of a workflow body: the tags of the runtime, the
    \* open scopes, how the last one was left, the tags a restart carried
    scope

snapshot == <<_running, _timedout, _results, _errors, _order>>
service == <<timers, pending, wfClosed, refused>>
runtime == <<_call_id, _scheduled>>
scheduler == <<_decisions, _closed, _rate_limit>>
rtstate == <<prog, snapshot, service, phase, pc, turn, runtime, scheduler,
             sent, last, ret, dropping, dropped>>

buckets == <<running, timedout, results, errors, order>>
history == <<eventId, life, finals, event, foldError>>
foldstate == <<buckets, event2call, history>>
\* the other components of the worker
elsewhere == <<poller, registrar, naming, activity, scope>>
\* what the fold leaves alone, and what the runtime leaves alone
rtvars == <<rtstate, elsewhere>>
foldvars == <<foldstate, elsewhere>>

vars == <<rtstate, foldstate, elsewhere>>

\* ----------------------------------------------------------------- helpers
Kinds == {"activity", "workflow"}
Delays == {0 - 1, 0, 30}
\* a call is not retried, or has the largest budget
Retries == {0, MaxRetry}
CallSpecs == [kind : Kinds, retry : Retries, delay : Delays]
Uuids == {"u1", "u2"}

\* ids of calls made by other branches of the workflow, running when the
\* model starts; they take budget, and the first of them may finish
BulkIds(n) == 1001..(1000 + n)
IsBulk(id) == id > 1001
\* how many of them there are: none, or as many as the limit allows
Loads == {0, RateLimit}

NoPayload == [tag |-> "", v |-> 0, len |-> 0]
NoLast == [k |-> 0, c0 |-> 0, retry |-> 0, delay |-> 0, from |-> None,
           state |-> "", value |-> None, order |-> None, at |-> None,
           emit |-> <<>>, sched |-> FALSE, room |-> FALSE, cursor |-> 0,
           redo |-> {}]
NoRet == [how |-> "", payload |-> NoPayload, flushed |-> FALSE,
          scheduled |-> FALSE, serial |-> TRUE]

Min(a, b) == IF a < b THEN a ELSE b
Max(a, b) == IF a > b THEN a ELSE b
SeqToSet(s) == {s[i] : i \in 1..Len(s)}

\* list.index: the first position of id, counted from 0
OrderIndex(id) ==
    (CHOOSE i \in 1..Len(_order) :
        _order[i] = id /\ \A j \in 1..(i - 1) : _order[j] # id) - 1

InOrder(id) == \E i \in 1..Len(_order) : _order[i] = id

\* json.dumps of a result
Serialize(v) == [tag |-> "json", v |-> v, len |-> 2]

\* variant: the reason is sent whole
Untruncated(m) == m

\* str(reason)[:256]
Truncate(m) == [m EXCEPT !.len = Min(m.len, ReasonSize)]

\* messages of the exceptions a body raises and of the TaskError of a wrapper
Messages(tag) == {[tag |-> tag, v |-> 0, len |-> l] : l \in {1, ReasonSize + 1}}

Terminal == {"FailWorkflowExecution", "CompleteWorkflowExecution",
             "ContinueAsNewWorkflowExecution"}

Decision(type, id, uuid, delay, payload) ==
    [type |-> type, id |-> id, uuid |-> uuid, delay |-> delay,
     payload |-> payload, tag_list |-> <<>>]

\* the tags of the workflow execution, one of them given twice
Tags == <<"red", "blue", "red">>

\* variant: one tag is kept
tags_one(tags) == {<<t>> : t \in SeqToSet(tags)}

\* list(set(str(t) for t in tags))[:5]: the distinct tags in the order the
\* set yields them, which is any order, cut after TagLimit of them
_tags(tags) ==
    LET S == SeqToSet(tags)
        n == Min(Cardinality(S), TagLimit)
    IN  {l \in [1..n -> S] : \A i, j \in 1..n : l[i] = l[j] => i = j}

\* keys are text, one character a place; a uuid4 is groups of hexadecimal
\* digits joined by '-', each group written here as one place
Digits == <<"0", "1", "2", "3", "4", "5", "6", "7", "8", "9">>
RECURSIVE str(_)
str(n) ==
    IF n < 10 THEN <<Digits[n + 1]>>
    ELSE str(n \div 10) \o <<Digits[(n % 10) + 1]>>
uuid4(u) == <<u, "-", u>>
\* positions of a separator in a text
Cuts(text, sep) == {i \in 1..Len(text) : text[i] = sep}
Last(S) == CHOOSE i \in S : \A j \in S : j <= i

\* the id a scheduling decision carries to the service: str(call_id) for a
\* timer and for an activity, '%s-%s' % (uuid.uuid4(), call_id) for a child
\* workflow
WireId(d) ==
    IF d.type = "StartChildWorkflowExecution"
    THEN uuid4(d.uuid) \o <<"-">> \o str(d.id)
    ELSE str(d.id)

\* ------------------------------------------------------------ SWFScheduler
\* schedule_timer: start_timer(timer_id=str(call_id)) if under the limit
schedule_timer(delay, id) ==
    IF Len(_decisions) < _rate_limit
    THEN <<Decision("StartTimer", id, "", delay, NoPayload)>>
    ELSE <<>>

\* variant: a decision is appended while the buffer holds no more than the
\* limit
schedule_activity_inclusive(id) ==
    IF Len(_decisions) <= _rate_limit
    THEN <<Decision("ScheduleActivityTask", id, "", 0, NoPayload)>>
    ELSE <<>>

\* schedule_activity: spec.schedule(decisions, call_id, input) if under the
\* limit
schedule_activity(id) ==
    IF Len(_decisions) < _rate_limit
    THEN <<Decision("ScheduleActivityTask", id, "", 0, NoPayload)>>
    ELSE <<>>

\* variant: child workflows are started whatever the buffer holds
schedule_workflow_unlimited(id, u) ==
    <<Decision("StartChildWorkflowExecution", id, u, 0, NoPayload)>>

\* schedule_workflow: the id is '%s-%s' % (uuid.uuid4(), call_id)
schedule_workflow(id, u) ==
    IF Len(_decisions) < _rate_limit
    THEN <<Decision("StartChildWorkflowExecution", id, u, 0, NoPayload)>>
    ELSE <<>>

\* variants: the terminal decision is appended to the buffer as it is
restart_keeping(input, tag_list) ==
    _decisions
    \o <<[Decision("ContinueAsNewWorkflowExecution", None, "", 0, input)
            EXCEPT !.tag_list = tag_list]>>

fail_keeping(reason) ==
    _decisions
    \o <<Decision("FailWorkflowExecution", None, "", 0, Truncate(reason))>>

\* restart/fail/complete: a fresh Layer1Decisions holding the one decision
restart_decisions(input, tag_list) ==
    <<[Decision("ContinueAsNewWorkflowExecution", None, "", 0, input)
        EXCEPT !.tag_list = tag_list]>>

fail_decisions(reason) ==
    <<Decision("FailWorkflowExecution", None, "", 0, Truncate(reason))>>

complete_decisions(result) ==
    <<Decision("CompleteWorkflowExecution", None, "", 0, result)>>

\* what the service does with a response it received
Respond(ds) ==
    IF \E i \in 1..Len(ds) : ds[i].type \in Terminal
    THEN wfClosed' = TRUE /\ pending' = pending
    ELSE wfClosed' = wfClosed /\ pending' = SeqToSet(ds)

\* variant: a flush sends whether or not the buffer was flushed before
flush_unguarded(ds, ok) ==
    /\ _closed' = TRUE
    /\ sent' = Append(sent, [decisions |-> ds, ok |-> ok])
    /\ IF ok THEN Respond(ds) ELSE UNCHANGED <<pending, wfClosed>>

\* flush: nothing once closed; else close, send, swallow SWFResponseError
flush(ds, ok) ==
    IF _closed
    THEN UNCHANGED <<_closed, sent, pending, wfClosed>>
    ELSE /\ _closed' = TRUE
         /\ sent' = Append(sent, [decisions |-> ds, ok |-> ok])
         /\ IF ok THEN Respond(ds) ELSE UNCHANGED <<pending, wfClosed>>

\* ------------------------------------------------------------ _SWFWorkflow
\* variant: a timer in running is not looked for
search_timer_unaware(c) ==
    IF c \in DOMAIN _results THEN [state |-> FOUND, c |-> c + 1]
    ELSE [state |-> NOTFOUND, c |-> c]

\* _search_timer: the state of the timer at the cursor, and the cursor after
_search_timer(c) ==
    IF c \in DOMAIN _results THEN [state |-> FOUND, c |-> c + 1]
    ELSE IF c \in _running THEN [state |-> RUNNING, c |-> c]
    ELSE [state |-> NOTFOUND, c |-> c]

Found(state, value, id) ==
    IF InOrder(id)
    THEN [state |-> state, value |-> value, order |-> OrderIndex(id), at |-> id]
    ELSE [state |-> RAISED, value |-> None, order |-> None, at |-> id]

\* variant: a timed out attempt does not consume the retry, its id is
\* scheduled again
RECURSIVE search_without_skip(_, _)
search_without_skip(c, n) ==
    IF c \in _running THEN
        [state |-> RUNNING, value |-> None, order |-> None, at |-> c]
    ELSE IF c \in DOMAIN _errors THEN Found(ERROR, _errors[c], c)
    ELSE IF c \in DOMAIN _results THEN Found(FOUND, _results[c], c)
    ELSE [state |-> NOTFOUND, value |-> None, order |-> None, at |-> c]

\* variant: an id in errors is not looked up, the attempt is scheduled again
RECURSIVE search_without_errors(_, _)
search_without_errors(c, n) ==
    IF c \in _timedout THEN
        IF n = 0 THEN Found(TIMEDOUT, None, c)
        ELSE search_without_errors(c + 1, n - 1)
    ELSE IF c \in _running THEN
        [state |-> RUNNING, value |-> None, order |-> None, at |-> c]
    ELSE IF c \in DOMAIN _results THEN Found(FOUND, _results[c], c)
    ELSE [state |-> NOTFOUND, value |-> None, order |-> None, at |-> c]

\* for self._call_id in range(c, c + n + 1): ...
RECURSIVE _search_result(_, _)
_search_result(c, n) ==
    IF c \in _timedout THEN
        IF n = 0 THEN Found(TIMEDOUT, None, c) ELSE _search_result(c + 1, n - 1)
    ELSE IF c \in _running THEN
        [state |-> RUNNING, value |-> None, order |-> None, at |-> c]
    ELSE IF c \in DOMAIN _errors THEN Found(ERROR, _errors[c], c)
    ELSE IF c \in DOMAIN _results THEN Found(FOUND, _results[c], c)
    ELSE [state |-> NOTFOUND, value |-> None, order |-> None, at |-> c]

\* variant: the id of the timer is not reserved
reserve_without_timer(c0, delay, retry) == 1 + c0 + retry

_reserve_call_ids(c0, delay, retry) ==
    1 + c0 + (IF delay > 0 THEN 1 ELSE 0) + retry

Sched(kind, id, u) ==
    IF kind = "activity" THEN schedule_activity(id) ELSE schedule_workflow(id, u)

\* variant: a new timer does not end the call, the first attempt is
\* scheduled with it
schedule_through_timer(c0, kind, retry, delay, u) ==
    LET t == IF delay # 0 THEN _search_timer(c0) ELSE [state |-> FOUND, c |-> c0]
        room == Len(_decisions) < _rate_limit
        s == _search_result(t.c, retry)
        quiet == [from |-> None, emit |-> <<>>, sched |-> FALSE, room |-> room]
    IN  IF t.state = NOTFOUND THEN
            [state |-> RUNNING, value |-> None, order |-> None, at |-> c0,
             from |-> None,
             emit |-> schedule_timer(delay, c0) \o Sched(kind, c0 + 1, u),
             sched |-> TRUE, room |-> room]
        ELSE IF t.state # FOUND THEN
            [state |-> t.state, value |-> None, order |-> None, at |-> c0] @@ quiet
        ELSE IF s.state = NOTFOUND THEN
            [state |-> RUNNING, value |-> None, order |-> None, at |-> s.at,
             from |-> t.c, emit |-> Sched(kind, s.at, u),
             sched |-> TRUE, room |-> room]
        ELSE s @@ [quiet EXCEPT !.from = t.c]

\* _schedule without its finally clause: the returned state, value and order,
\* the decision appended, and whether the scheduled flag is set
_schedule(c0, kind, retry, delay, u) ==
    LET t == IF delay # 0 THEN _search_timer(c0) ELSE [state |-> FOUND, c |-> c0]
        room == Len(_decisions) < _rate_limit
        s == _search_result(t.c, retry)
        quiet == [from |-> None, emit |-> <<>>, sched |-> FALSE, room |-> room]
    IN  IF t.state = NOTFOUND THEN
            [state |-> RUNNING, value |-> None, order |-> None, at |-> c0,
             from |-> None, emit |-> schedule_timer(delay, c0),
             sched |-> TRUE, room |-> room]
        ELSE IF t.state # FOUND THEN
            [state |-> t.state, value |-> None, order |-> None, at |-> c0] @@ quiet
        ELSE IF s.state = NOTFOUND THEN
            [state |-> RUNNING, value |-> None, order |-> None, at |-> s.at,
             from |-> t.c, emit |-> Sched(kind, s.at, u),
             sched |-> TRUE, room |-> room]
        ELSE s @@ [quiet EXCEPT !.from = t.c]


\* ---------------------------------------------------------------- the turn
\* values the service reports for a finished call
ResultOf(id) == 100 + id
ReasonOf(id) == 200 + id
\* the cause of an event that rejects a decision
CauseOf(id) == 300 + id

\* an optional value: None in the descriptors, or a value
Unset == [unset |-> TRUE]
Given(v) == [unset |-> FALSE, v |-> v]

\* start_swf_workflow_worker at one of its places, no type at hand
Registrar(at, reg_remote, types) ==
    [pc |-> at, reg_remote |-> reg_remote, types |-> types, left |-> types,
     config |-> Unset, wire |-> Unset, calls |-> <<>>, answer |-> "",
     remote |-> Unset, error |-> "", reason |-> "", code |-> 0]

\* the worker loop before its first poll
InitPoller ==
    poller = [pc |-> "poll", pages |-> 1, empty |-> FALSE, page |-> 1,
              attempt |-> 0, worst |-> 0, seen |-> <<>>, polls |-> 0,
              responded |-> 0, domain |-> "domain", task_list |-> "list"]

NoActivity ==
    [pc |-> "idle", token |-> 0, outcome |-> "", result |-> NoPayload,
     returned |-> "", sent |-> <<>>]

NoExit == [how |-> "", before |-> <<>>, after |-> <<>>]
NoScope ==
    [at |-> "new", _tags |-> <<>>, frames |-> <<>>, entered |-> 0,
     raising |-> FALSE, exited |-> NoExit, restarted |-> FALSE,
     carried |-> <<>>]

NoCall == [self |-> 0, name |-> "", before |-> <<>>, ret |-> 0]

InitElsewhere ==
    /\ InitPoller
    /\ registrar = Registrar("polling", FALSE, 0)
    /\ naming = [heap |-> <<>>, call |-> NoCall]
    /\ activity = NoActivity
    /\ scope = NoScope

\* load_events before its loop, for a history that holds only
\* WorkflowExecutionStarted, which poll_next_decision consumed
InitFoldState ==
    /\ running = {} /\ timedout = {}
    /\ results = <<>> /\ errors = <<>>
    /\ order = <<>> /\ event2call = <<>>
    /\ eventId = 1
    /\ life = [n \in 1..MaxKeys |-> [st |-> "new", ev |-> 0]]
    /\ finals = <<>>
    /\ event = [type |-> "WorkflowExecutionStarted", n |-> 0]
    /\ foldError = ""

InitFoldVars == InitElsewhere /\ InitFoldState

Init ==
    /\ InitFoldVars
    /\ prog = <<>>
    /\ \E n \in Loads : _running = BulkIds(n)
    /\ _timedout = {} /\ _results = <<>> /\ _errors = <<>> /\ _order = <<>>
    /\ timers = {} /\ pending = {} /\ wfClosed = FALSE /\ refused = {}
    /\ phase = "idle" /\ pc = 0 /\ turn = 0
    /\ _call_id = 0 /\ _scheduled = FALSE
    /\ _decisions = <<>> /\ _closed = FALSE /\ _rate_limit = RateLimit
    /\ sent = <<>> /\ last = NoLast /\ ret = NoRet
    /\ dropping = {} /\ dropped = {}

\* a decision task is dispatched: SWFWorkflow.__init__, _SWFWorkflow.__init__,
\* SWFScheduler.__init__, then Task.__call__ enters run()
StartTurn ==
    /\ phase = "idle" /\ ~wfClosed /\ pending = {} /\ turn < MaxTurns
    /\ phase' = "body" /\ pc' = 1 /\ turn' = turn + 1
    /\ _call_id' = 0 /\ _scheduled' = FALSE
    /\ _decisions' = <<>> /\ _closed' = FALSE
    /\ _rate_limit' = RateLimit - Cardinality(_running)
    /\ UNCHANGED <<prog, snapshot, service, sent, last, ret, dropping, dropped>>
    /\ UNCHANGED foldvars

\* Task.__call__ has returned: the worker drops the runtime and its buffer
\* and polls again
Poll ==
    /\ phase = "done"
    /\ phase' = "idle" /\ pc' = 0
    /\ _call_id' = 0 /\ _scheduled' = FALSE
    /\ _decisions' = <<>> /\ _closed' = FALSE /\ _rate_limit' = RateLimit
    /\ sent' = <<>> /\ last' = NoLast /\ ret' = NoRet
    /\ dropped' = dropped \cup dropping /\ dropping' = {}
    /\ UNCHANGED <<prog, snapshot, service, turn>>
    /\ UNCHANGED foldvars

\* the body makes its next logical call: _schedule with its finally clause
Call(cs, u) ==
    LET c0 == _call_id
        o == _schedule(c0, cs.kind, cs.retry, cs.delay, u)
        c1 == _reserve_call_ids(c0, cs.delay, cs.retry)
    IN  /\ _call_id' = c1
        /\ _scheduled' = (_scheduled \/ o.sched)
        /\ _decisions' = _decisions \o o.emit
        /\ last' = [k |-> pc, c0 |-> c0, retry |-> cs.retry, delay |-> cs.delay,
                    from |-> o.from, state |-> o.state, value |-> o.value,
                    order |-> o.order, at |-> o.at, emit |-> o.emit,
                    sched |-> o.sched, room |-> o.room, cursor |-> c1,
                    redo |-> {d[2] : d \in {e \in dropped : e[1] = pc}}]
        /\ dropping' = IF o.sched /\ o.emit = <<>>
                       THEN dropping \cup {<<pc, o.at>>} ELSE dropping
        /\ dropped' = IF o.emit # <<>>
                      THEN dropped \ {<<pc, o.at>>} ELSE dropped
        /\ pc' = pc + 1
        /\ UNCHANGED <<snapshot, service, phase, _closed, _rate_limit, sent,
                       ret, turn>>
        /\ UNCHANGED foldvars

\* the body is deterministic: a call made in an earlier turn is made again
\* with the same parameters
NextCall(kind) ==
    /\ phase = "body" /\ pc <= MaxCalls
    /\ \E cs \in CallSpecs, u \in Uuids :
        /\ cs.kind = kind
        /\ \/ pc <= Len(prog) /\ cs = prog[pc] /\ prog' = prog
           \/ pc = Len(prog) + 1 /\ prog' = Append(prog, cs)
        /\ Call(cs, u)

CallActivity == NextCall("activity")
CallWorkflow == NextCall("workflow")

EndTurn(how, payload, serial) ==
    /\ phase' = "done"
    /\ ret' = [how |-> how, payload |-> payload, flushed |-> _closed,
               scheduled |-> _scheduled, serial |-> serial]
    /\ UNCHANGED <<prog, snapshot, timers, refused, pc, _call_id, _rate_limit, last,
                   dropping, dropped, turn>>
    /\ UNCHANGED foldvars

\* restart(): nothing if the arguments do not serialize, else the scheduled
\* flag, a single continue-as-new decision and a flush; run() goes on
RestartWith(tags) ==
    /\ phase = "body"
    /\ \E serial \in BOOLEAN, ok \in BOOLEAN, tag_list \in _tags(tags) :
        IF serial
        THEN /\ _scheduled' = TRUE
             /\ _decisions' = restart_decisions(Serialize(0), tag_list)
             /\ flush(_decisions', ok)
        ELSE UNCHANGED <<_scheduled, _decisions, _closed, sent, pending, wfClosed>>
    /\ UNCHANGED <<prog, snapshot, timers, refused, phase, pc, _call_id, _rate_limit,
                   last, ret, dropping, dropped, turn>>
    /\ UNCHANGED foldvars

\* the workflow execution was started without tags
Restart == RestartWith(<<>>)
\* the workflow execution was started with Tags
RestartTagged == RestartWith(Tags)

\* variant: a suspended body fails the workflow
SuspendFails ==
    /\ phase = "body"
    /\ \E m \in Messages("Exception"), ok \in BOOLEAN :
        /\ _decisions' = fail_decisions(m)
        /\ flush(_decisions', ok)
        /\ UNCHANGED _scheduled
        /\ EndTurn("suspend", NoPayload, TRUE)

\* run() raises SuspendTask: _suspend
RaiseSuspend ==
    /\ phase = "body"
    /\ \E ok \in BOOLEAN : flush(_decisions, ok)
    /\ UNCHANGED <<_decisions, _scheduled>>
    /\ EndTurn("suspend", NoPayload, TRUE)

\* run() raises another exception: _fail
RaiseException ==
    /\ phase = "body"
    /\ \E m \in Messages("Exception"), ok \in BOOLEAN :
        /\ _scheduled' = TRUE
        /\ _decisions' = fail_decisions(m)
        /\ flush(_decisions', ok)
        /\ EndTurn("raise", m, TRUE)

\* run() returns an Error or a Timeout: _finish fails the workflow with the
\* TaskError that result() raises
ReturnWrapper ==
    /\ phase = "body"
    /\ \E m \in Messages("TaskError"), ok \in BOOLEAN :
        /\ _decisions' = fail_decisions(m)
        /\ flush(_decisions', ok)
        /\ UNCHANGED _scheduled
        /\ EndTurn("wrapper", m, TRUE)

\* _finish: if not self._scheduled and not self._running
CanComplete == ~_scheduled /\ _running = {}

\* run() returns a value (or a Result, unwrapped by result()): _finish
ReturnValue ==
    /\ phase = "body"
    /\ \E v \in {42}, serial \in BOOLEAN, ok \in BOOLEAN :
        /\ IF CanComplete
           THEN IF serial
                THEN /\ _decisions' = complete_decisions(Serialize(v))
                     /\ flush(_decisions', ok)
                ELSE UNCHANGED <<_decisions, _closed, sent, pending, wfClosed>>
           ELSE /\ flush(_decisions, ok)
                /\ UNCHANGED _decisions
        /\ UNCHANGED _scheduled
        /\ EndTurn("value", Serialize(v), serial)

\* -------------------------------------------------------------- the service
\* events past the last decision task dispatched are never read
Idle == phase = "idle" /\ ~wfClosed /\ turn < MaxTurns

Settled == UNCHANGED <<prog, phase, pc, runtime, scheduler, sent, last, ret,
                       dropping, dropped, wfClosed, turn, foldvars>>

\* an accepted decision is recorded: ActivityTaskScheduled,
\* StartChildWorkflowExecutionInitiated, TimerStarted (StartTimerFailed, which
\* the folder ignores, for a delay that is not positive)
SvcAccept ==
    /\ Idle
    /\ \E d \in pending :
        /\ pending' = pending \ {d}
        /\ IF d.type = "StartTimer"
           THEN IF d.delay > 0
                THEN /\ _running' = _running \cup {d.id}
                     /\ timers' = timers \cup {d.id}
                     /\ refused' = refused
                ELSE /\ refused' = refused \cup {d.id}
                     /\ UNCHANGED <<_running, timers>>
           ELSE /\ _running' = _running \cup {d.id}
                /\ UNCHANGED <<timers, refused>>
    /\ UNCHANGED <<_timedout, _results, _errors, _order>>
    /\ Settled

\* ScheduleActivityTaskFailed, StartChildWorkflowExecutionFailed
SvcReject ==
    /\ Idle
    /\ \E d \in pending :
        /\ d.type # "StartTimer"
        /\ pending' = pending \ {d}
        /\ _errors' = (d.id :> CauseOf(d.id)) @@ _errors
        /\ _order' = Append(_order, d.id)
    /\ UNCHANGED <<_running, _timedout, _results, timers, refused>>
    /\ Settled

Open == {id \in _running : ~IsBulk(id) /\ id \notin timers}

\* ActivityTaskCompleted, ChildWorkflowExecutionCompleted
SvcComplete ==
    /\ Idle
    /\ \E id \in Open :
        /\ _running' = _running \ {id}
        /\ _results' = (id :> ResultOf(id)) @@ _results
        /\ _order' = Append(_order, id)
    /\ UNCHANGED <<_timedout, _errors, timers, pending, refused>>
    /\ Settled

\* ActivityTaskFailed, ChildWorkflowExecutionFailed
SvcFail ==
    /\ Idle
    /\ \E id \in Open :
        /\ _running' = _running \ {id}
        /\ _errors' = (id :> ReasonOf(id)) @@ _errors
        /\ _order' = Append(_order, id)
    /\ UNCHANGED <<_timedout, _results, timers, pending, refused>>
    /\ Settled

\* ActivityTaskTimedOut, ChildWorkflowExecutionTimedOut
SvcTimeOut ==
    /\ Idle
    /\ \E id \in Open :
        /\ _running' = _running \ {id}
        /\ _timedout' = _timedout \cup {id}
        /\ _order' = Append(_order, id)
    /\ UNCHANGED <<_results, _errors, timers, pending, refused>>
    /\ Settled

\* TimerFired: a fired timer is a result with no value and no place in order
\* (under the call id the runtime looks for in _search_timer)
SvcTimerFired ==
    /\ Idle
    /\ \E id \in timers :
        /\ timers' = timers \ {id}
        /\ _running' = _running \ {id}
        /\ _results' = (id :> None) @@ _results
    /\ UNCHANGED <<_timedout, _errors, _order, pending, refused>>
    /\ Settled

Next ==
    \/ StartTurn
    \/ Poll
    \/ CallActivity
    \/ CallWorkflow
    \/ Restart
    \/ RaiseSuspend
    \/ RaiseException
    \/ ReturnWrapper
    \/ ReturnValue
    \/ SvcAccept
    \/ SvcReject
    \/ SvcComplete
    \/ SvcFail
    \/ SvcTimeOut
    \/ SvcTimerFired

Spec == Init /\ [][Next]_vars

\* decision turns of a tagged workflow execution whose history does not
\* grow: a response that is lost leaves the next turn the same snapshot
NextReplay ==
    \/ StartTurn
    \/ Poll
    \/ CallActivity
    \/ CallWorkflow
    \/ RestartTagged
    \/ RaiseSuspend
    \/ RaiseException
    \/ ReturnWrapper
    \/ ReturnValue

SpecReplay == Init /\ [][NextReplay]_vars

\* ------------------------------------------------ backend/swf.py: the keys
\* the call key of the n-th call of a workflow: str(self._call_id)
CallKey(n) == str(n)
\* '%s:t' % call_key
_timer_key(k) == k \o <<":", "t">>
\* timer_key.endswith(':t'), which _timer_call_key asserts
EndsWithT(tk) == Len(tk) >= 2 /\ SubSeq(tk, Len(tk) - 1, Len(tk)) = <<":", "t">>
\* variant: the timer id is kept as it is
timer_key_kept(tk) == tk

\* timer_key[:-2]
_timer_call_key(tk) == SubSeq(tk, 1, Len(tk) - 2)
\* '%s:%s' % (uuid.uuid4(), call_key)
_subworkflow_key(k, u) == uuid4(u) \o <<":">> \o k
\* subworkflow_key.split(':')[-1]
_subworkflow_call_key(wk) ==
    IF Cuts(wk, ":") = {} THEN wk
    ELSE SubSeq(wk, Last(Cuts(wk, ":")) + 1, Len(wk))
\* workflow_id.rsplit('-', 1)[-1]
_subworkflow_id(wid) ==
    IF Cuts(wid, "-") = {} THEN wid
    ELSE SubSeq(wid, Last(Cuts(wid, "-")) + 1, Len(wid))

\* ------------------------------------------ backend/swf.py: load_events
\* variant: a timed out call is left in running
TimedOutStillRunning(eid) ==
    /\ timedout' = timedout \cup {eid}
    /\ order' = Append(order, eid)
    /\ UNCHANGED <<running, results, errors>>

\* variant: a failed call is not appended to order
FailedUnordered(eid, reason) ==
    /\ running' = running \ {eid}
    /\ errors' = (eid :> reason) @@ errors
    /\ UNCHANGED <<timedout, results, order>>

\* variant: a completed call is left in running
CompletedStillRunning(eid, result) ==
    /\ results' = (eid :> result) @@ results
    /\ order' = Append(order, eid)
    /\ UNCHANGED <<running, timedout, errors>>

\* running.add(eid)
FoldScheduled(eid) ==
    /\ running' = running \cup {eid}
    /\ UNCHANGED <<timedout, results, errors, order>>

\* running.remove(eid); results[eid] = result; order.append(eid)
FoldCompleted(eid, result) ==
    /\ running' = running \ {eid}
    /\ results' = (eid :> result) @@ results
    /\ order' = Append(order, eid)
    /\ UNCHANGED <<timedout, errors>>

\* running.remove(eid); errors[eid] = reason; order.append(eid)
FoldFailed(eid, reason) ==
    /\ running' = running \ {eid}
    /\ errors' = (eid :> reason) @@ errors
    /\ order' = Append(order, eid)
    /\ UNCHANGED <<timedout, results>>

\* running.remove(eid); timedout.add(eid); order.append(eid)
FoldTimedOut(eid) ==
    /\ running' = running \ {eid}
    /\ timedout' = timedout \cup {eid}
    /\ order' = Append(order, eid)
    /\ UNCHANGED <<results, errors>>

\* errors[eid] = cause; order.append(eid): running is left alone
FoldRejected(eid, cause) ==
    /\ errors' = (eid :> cause) @@ errors
    /\ order' = Append(order, eid)
    /\ UNCHANGED <<running, timedout, results>>

\* load_events is in its loop: it has not raised and has not returned
Reading == foldError = "" /\ event.type # "return"

\* the service appends an event about call key n and load_events reads it
Event(n, from, to) ==
    /\ eventId < 1 + MaxEvents
    /\ Reading /\ UNCHANGED foldError
    /\ life[n].st \in from
    /\ eventId' = eventId + 1
    /\ life' = [life EXCEPT ![n] = [st |-> to,
                    ev |-> IF to = "activity" THEN eventId + 1 ELSE @.ev]]

Finalizes(k) == finals' = Append(finals, k)
\* e_type = event.get('eventType'), and the call key the event is about
Reads(type, n) == event' = [type |-> type, n |-> n]
Fresh == {"new", "fired"}
Keys == 1..MaxKeys

FoldActivityTaskScheduled ==
    \E n \in Keys :
        /\ Event(n, Fresh, "activity")
        /\ Reads("ActivityTaskScheduled", n)
        /\ event2call' = ((eventId + 1) :> CallKey(n)) @@ event2call
        /\ FoldScheduled(CallKey(n))
        /\ UNCHANGED <<finals, rtvars>>

FoldActivityTaskCompleted ==
    \E n \in Keys :
        /\ Event(n, {"activity"}, "closed")
        /\ Reads("ActivityTaskCompleted", n)
        /\ FoldCompleted(event2call[life[n].ev], ResultOf(n))
        /\ Finalizes(CallKey(n))
        /\ UNCHANGED <<event2call, rtvars>>

FoldActivityTaskFailed ==
    \E n \in Keys :
        /\ Event(n, {"activity"}, "closed")
        /\ Reads("ActivityTaskFailed", n)
        /\ FoldFailed(event2call[life[n].ev], ReasonOf(n))
        /\ Finalizes(CallKey(n))
        /\ UNCHANGED <<event2call, rtvars>>

FoldActivityTaskTimedOut ==
    \E n \in Keys :
        /\ Event(n, {"activity"}, "closed")
        /\ Reads("ActivityTaskTimedOut", n)
        /\ FoldTimedOut(event2call[life[n].ev])
        /\ Finalizes(CallKey(n))
        /\ UNCHANGED <<event2call, rtvars>>

FoldScheduleActivityTaskFailed ==
    \E n \in Keys :
        /\ Event(n, Fresh, "closed")
        /\ Reads("ScheduleActivityTaskFailed", n)
        /\ FoldRejected(CallKey(n), CauseOf(n))
        /\ Finalizes(CallKey(n))
        /\ UNCHANGED <<event2call, rtvars>>

FoldStartChildWorkflowExecutionInitiated ==
    \E n \in Keys, u \in Uuids :
        /\ Event(n, Fresh, "workflow")
        /\ Reads("StartChildWorkflowExecutionInitiated", n)
        /\ FoldScheduled(_subworkflow_call_key(_subworkflow_key(CallKey(n), u)))
        /\ UNCHANGED <<event2call, finals, rtvars>>

FoldChildWorkflowExecutionCompleted ==
    \E n \in Keys, u \in Uuids :
        /\ Event(n, {"workflow"}, "closed")
        /\ Reads("ChildWorkflowExecutionCompleted", n)
        /\ FoldCompleted(_subworkflow_call_key(_subworkflow_key(CallKey(n), u)),
                         ResultOf(n))
        /\ Finalizes(CallKey(n))
        /\ UNCHANGED <<event2call, rtvars>>

FoldChildWorkflowExecutionFailed ==
    \E n \in Keys, u \in Uuids :
        /\ Event(n, {"workflow"}, "closed")
        /\ Reads("ChildWorkflowExecutionFailed", n)
        /\ FoldFailed(_subworkflow_call_key(_subworkflow_key(CallKey(n), u)),
                      ReasonOf(n))
        /\ Finalizes(CallKey(n))
        /\ UNCHANGED <<event2call, rtvars>>

FoldChildWorkflowExecutionTimedOut ==
    \E n \in Keys, u \in Uuids :
        /\ Event(n, {"workflow"}, "closed")
        /\ Reads("ChildWorkflowExecutionTimedOut", n)
        /\ FoldTimedOut(_subworkflow_call_key(_subworkflow_key(CallKey(n), u)))
        /\ Finalizes(CallKey(n))
        /\ UNCHANGED <<event2call, rtvars>>

FoldStartChildWorkflowExecutionFailed ==
    \E n \in Keys, u \in Uuids :
        /\ Event(n, Fresh, "closed")
        /\ Reads("StartChildWorkflowExecutionFailed", n)
        /\ FoldRejected(_subworkflow_call_key(_subworkflow_key(CallKey(n), u)),
                        CauseOf(n))
        /\ Finalizes(CallKey(n))
        /\ UNCHANGED <<event2call, rtvars>>

\* running.add(_timer_call_key(eid)): the call key, not the timer id
FoldTimerStarted ==
    \E n \in Keys :
        /\ Event(n, {"new"}, "timer")
        /\ Reads("TimerStarted", n)
        /\ FoldScheduled(_timer_call_key(_timer_key(CallKey(n))))
        /\ UNCHANGED <<event2call, finals, rtvars>>

\* running.remove(_timer_call_key(eid)); results[eid] = None: the timer id
\* becomes a key of results and order is left alone
FoldTimerFired ==
    \E n \in Keys :
        LET eid == _timer_key(CallKey(n))
        IN  /\ Event(n, {"timer"}, "fired")
            /\ Reads("TimerFired", n)
            /\ running' = running \ {_timer_call_key(eid)}
            /\ results' = (eid :> None) @@ results
            /\ Finalizes(eid)
            /\ UNCHANGED <<timedout, errors, order, event2call, rtvars>>

\* TimerFired for a timer the history never started: set.remove raises
\* KeyError before results is assigned, and load_events returns nothing
FoldTimerFiredUnknown ==
    \E n \in Keys :
        LET eid == _timer_key(CallKey(n))
        IN  /\ eventId < 1 + MaxEvents /\ Reading
            /\ life[n].st = "new"
            /\ _timer_call_key(eid) \notin running
            /\ eventId' = eventId + 1
            /\ Reads("TimerFired", n)
            /\ foldError' = "KeyError"
            /\ UNCHANGED <<buckets, event2call, life, finals, rtvars>>

\* TimerStarted for a timer whose id is the call id alone, as schedule_timer
\* of task.py writes it: the assert of _timer_call_key fails
FoldTimerStartedBare ==
    \E n \in Keys :
        LET eid == WireId(Decision("StartTimer", n, "", 30, NoPayload))
        IN  /\ eventId < 1 + MaxEvents /\ Reading
            /\ life[n].st = "new"
            /\ ~EndsWithT(eid)
            /\ eventId' = eventId + 1
            /\ Reads("TimerStarted", n)
            /\ foldError' = "AssertionError"
            /\ UNCHANGED <<buckets, event2call, life, finals, rtvars>>

\* int(key), which raises ValueError for a text that is not a number
IsInt(k) == k # <<>> /\ \A i \in 1..Len(k) : k[i] \in SeqToSet(Digits)
Snapshot == running \cup timedout \cup DOMAIN results \cup DOMAIN errors
                \cup SeqToSet(order)

\* the history ends: load_events returns its five collections and
\* _SWFWorkflow.__init__ applies int to every key of them
__init__ ==
    /\ Reading
    /\ event' = [type |-> "return", n |-> 0]
    /\ foldError' = IF \A k \in Snapshot : IsInt(k) THEN "" ELSE "ValueError"
    /\ UNCHANGED <<buckets, event2call, eventId, life, finals, rtvars>>

\* an event of any other type: no branch of load_events matches it
FoldOther ==
    /\ eventId < 1 + MaxEvents
    /\ Reading /\ UNCHANGED foldError
    /\ eventId' = eventId + 1
    /\ Reads("DecisionTaskScheduled", 0)
    /\ UNCHANGED <<buckets, event2call, life, finals, rtvars>>

\* no workflow is running
InitIdle ==
    /\ prog = <<>>
    /\ _running = {}
    /\ _timedout = {} /\ _results = <<>> /\ _errors = <<>> /\ _order = <<>>
    /\ timers = {} /\ pending = {} /\ wfClosed = FALSE /\ refused = {}
    /\ phase = "idle" /\ pc = 0 /\ turn = 0
    /\ _call_id = 0 /\ _scheduled = FALSE
    /\ _decisions = <<>> /\ _closed = FALSE /\ _rate_limit = RateLimit
    /\ sent = <<>> /\ last = NoLast /\ ret = NoRet
    /\ dropping = {} /\ dropped = {}

InitFold == InitFoldVars /\ InitIdle

NextFold ==
    \/ FoldActivityTaskScheduled
    \/ FoldActivityTaskCompleted
    \/ FoldActivityTaskFailed
    \/ FoldActivityTaskTimedOut
    \/ FoldScheduleActivityTaskFailed
    \/ FoldStartChildWorkflowExecutionInitiated
    \/ FoldChildWorkflowExecutionCompleted
    \/ FoldChildWorkflowExecutionFailed
    \/ FoldChildWorkflowExecutionTimedOut
    \/ FoldStartChildWorkflowExecutionFailed
    \/ FoldTimerStarted
    \/ FoldTimerFired
    \/ FoldTimerFiredUnknown
    \/ FoldTimerStartedBare
    \/ __init__
    \/ FoldOther

SpecFold == InitFold /\ [][NextFold]_vars

\* ------------------------------------- backend/swf.py: the registration
\* a conversion that raises
ValueError == [raised |-> "ValueError"]
RuntimeError == [raised |-> "RuntimeError"]

_CHILD_POLICY == {Given("TERMINATE"), Given("REQUEST_CANCEL"), Given("ABANDON"),
                  Unset}

\* str.upper on the policies a descriptor is given
upper(text) ==
    CASE text = "terminate" -> "TERMINATE"
      [] text = "abandon" -> "ABANDON"
      [] text = "keep" -> "KEEP"
      [] OTHER -> text

_cp_encode(val) ==
    LET v == IF val # Unset THEN Given(upper(val.v)) ELSE val
    IN  IF v \notin _CHILD_POLICY THEN ValueError ELSE v

_timer_encode(val) ==
    IF val = Unset THEN Unset
    ELSE IF Max(val.v, 0) = 0 THEN ValueError
    ELSE Given(str(Max(val.v, 0)))

\* the values are texts already
_str_or_none(val) == IF val = Unset THEN Unset ELSE Given(val.v)

\* the descriptors of workflow types: SWFWorkflow.__init__
Descriptor(name, version, task_list, workflow_duration, decision_duration, child_policy) ==
    [name |-> name, version |-> version, default_task_list |-> task_list,
     default_workflow_duration |-> workflow_duration,
     default_decision_duration |-> decision_duration,
     default_child_policy |-> child_policy]
Descriptors ==
    {Descriptor(n, 1, l, w, d, c) :
        n \in {Unset, Given("w")}, l \in {Unset, Given("a")},
        w \in {Unset, Given(0), Given(60)}, d \in {Unset, Given(30)},
        c \in {Unset, Given("terminate"), Given("keep")}}

\* SWFWorkflow._cvt_values: the values as the service takes them
_cvt_values(self) ==
    LET d_t_l == _str_or_none(self.default_task_list)
        d_w_d == _timer_encode(self.default_workflow_duration)
        d_d_d == _timer_encode(self.default_decision_duration)
        d_c_p == _cp_encode(self.default_child_policy)
    IN  IF self.name = Unset THEN RuntimeError
        ELSE IF ValueError \in {d_w_d, d_d_d, d_c_p} THEN ValueError
        ELSE [n |-> self.name.v, v |-> str(self.version), d_t_l |-> d_t_l,
              d_w_d |-> d_w_d, d_d_d |-> d_d_d, d_c_p |-> d_c_p]

\* the 'configuration' of describe_workflow_type
Configurations ==
    [defaultTaskList : {Unset, Given("a")},
     defaultTaskStartToCloseTimeout : {Unset, Given(str(30))},
     defaultExecutionStartToCloseTimeout : {Unset, Given(str(60))},
     defaultChildPolicy : {Unset, Given("TERMINATE"), Given("ABANDON")}]

\* variant: the child policy is not compared
check_compatible_but_policy(wire, w_descr) ==
    IF w_descr.defaultTaskList # wire.d_t_l THEN "Default task list"
    ELSE IF w_descr.defaultTaskStartToCloseTimeout # wire.d_d_d
    THEN "Default decision duration"
    ELSE IF w_descr.defaultExecutionStartToCloseTimeout # wire.d_w_d
    THEN "Default workflow duration"
    ELSE ""

\* SWFWorkflow.check_compatible after the describe call: the field its
\* _RegistrationError names, or nothing
check_compatible(wire, w_descr) ==
    IF w_descr.defaultTaskList # wire.d_t_l THEN "Default task list"
    ELSE IF w_descr.defaultTaskStartToCloseTimeout # wire.d_d_d
    THEN "Default decision duration"
    ELSE IF w_descr.defaultExecutionStartToCloseTimeout # wire.d_w_d
    THEN "Default workflow duration"
    ELSE IF w_descr.defaultChildPolicy # wire.d_c_p
    THEN "Default child policy"
    ELSE ""

\* variant: the error is logged and the worker goes on
logged(reg, e, reason) ==
    [reg EXCEPT !.pc = "polling", !.error = e, !.reason = reason]

\* start_swf_workflow_worker: except _RegistrationError prints and calls
\* sys.exit(1); any other exception ends the worker as it is
raised(reg, e, reason) ==
    [reg EXCEPT !.pc = IF e = "_RegistrationError" THEN "exit" ELSE "raised",
                !.error = e, !.reason = reason,
                !.code = IF e = "_RegistrationError" THEN 1 ELSE @]

Registering(at) ==
    /\ registrar.pc = at
    /\ UNCHANGED <<rtstate, foldstate, poller, naming, activity, scope>>

\* SWFWorker.register_remote takes the next type of the registry;
\* SWFConfigMixin.register_remote calls try_register_remote, which converts
\* the values and calls register_workflow_type
try_register_remote ==
    /\ Registering("registering") /\ registrar.left > 0
    /\ \E self \in Descriptors, answer \in {"new", "exists", "error"} :
        LET wire == _cvt_values(self)
            at == [registrar EXCEPT !.config = self, !.wire = Unset,
                                    !.calls = <<>>, !.answer = "",
                                    !.remote = Unset]
            called == [at EXCEPT !.wire = wire, !.answer = answer,
                                 !.calls = <<"register_workflow_type">>]
        IN  registrar' =
              IF wire \in {RuntimeError, ValueError}
              THEN raised(at, wire.raised, "")
              ELSE CASE answer = "new" -> [called EXCEPT !.left = @ - 1]
                     [] answer = "exists" -> [called EXCEPT !.pc = "check"]
                     [] OTHER -> raised(called, "_RegistrationError", "")

\* SWFConfigMixin.register_remote: the type exists, check_compatible
\* describes it and compares
check_remote ==
    /\ Registering("check")
    /\ LET called == [registrar EXCEPT
                         !.calls = Append(@, "describe_workflow_type")]
       IN  \/ registrar' = raised([called EXCEPT !.answer = "error"],
                                  "_RegistrationError", "")
           \/ \E w_descr \in Configurations :
               LET described == [called EXCEPT !.remote = w_descr]
                   reason == check_compatible(registrar.wire, w_descr)
               IN  registrar' =
                     IF reason # ""
                     THEN raised(described, "_RegistrationError", reason)
                     ELSE [described EXCEPT !.pc = "registering",
                                            !.left = @ - 1]

\* start_swf_workflow_worker: register_remote returned, the loop begins
StartPolling ==
    /\ Registering("registering") /\ registrar.left = 0
    /\ registrar' = [Registrar("polling", TRUE, registrar.types)
                        EXCEPT !.left = 0]

\* start_swf_workflow_worker is called with a registry of some types, with
\* reg_remote set or not
InitWorker ==
    /\ InitFoldState /\ InitIdle /\ InitPoller
    /\ naming = [heap |-> <<>>, call |-> NoCall]
    /\ activity = NoActivity
    /\ scope = NoScope
    /\ \E types \in 0..MaxTypes :
        \/ registrar = Registrar("registering", TRUE, types)
        \/ registrar = Registrar("polling", FALSE, types)

\* ---------------------------------------- backend/swf.py: the descriptors
\* a descriptor object: the attributes SWFWorkflow.__init__ sets
Object(conf, rate_limit, proxy_factory_registry) ==
    [name |-> conf.name, version |-> conf.version,
     default_task_list |-> conf.default_task_list,
     default_workflow_duration |-> conf.default_workflow_duration,
     default_decision_duration |-> conf.default_decision_duration,
     default_child_policy |-> conf.default_child_policy,
     rate_limit |-> rate_limit,
     proxy_factory_registry |-> proxy_factory_registry]
Objects ==
    {Object(Descriptor(n, v, l, w, Unset, c), r, p) :
        n \in {Unset, Given("w")}, v \in {1, 2}, l \in {Unset, Given("a")},
        w \in {Unset, Given(60)}, c \in {Unset, Given("terminate")},
        r \in {RateLimit, 8}, p \in {{}, {"dep"}}}
\* the names of the factories a worker registers
FactoryNames == {"f", "g"}

\* variant: the name is set on the descriptor itself
stamp_in_place(heap, self, name) ==
    [heap |-> [heap EXCEPT ![self].name = IF @ = Unset THEN Given(name) ELSE @],
     ret |-> self]

\* SWFWorkflow.set_alternate_name: a named descriptor is returned as it is;
\* of a nameless one a clone is constructed from the name, the version and
\* the attributes whose names begin with default, and the proxies are
\* configured on it again; rate_limit gets the default of __init__
set_alternate_name(heap, self, name) ==
    IF heap[self].name # Unset THEN [heap |-> heap, ret |-> self]
    ELSE LET old == heap[self]
             clone_args ==
                 Descriptor(Given(name), old.version, old.default_task_list,
                            old.default_workflow_duration,
                            old.default_decision_duration,
                            old.default_child_policy)
             new_config == Object(clone_args, RateLimit,
                                  old.proxy_factory_registry)
         IN  [heap |-> Append(heap, new_config), ret |-> Len(heap) + 1]

\* a worker registers a factory under a descriptor
SetAlternateName ==
    /\ Len(naming.heap) < MaxObjects
    /\ \E self \in DOMAIN naming.heap, name \in FactoryNames :
        LET done == set_alternate_name(naming.heap, self, name)
        IN  naming' = [heap |-> done.heap,
                       call |-> [self |-> self, name |-> name,
                                 before |-> naming.heap, ret |-> done.ret]]
    /\ UNCHANGED <<rtstate, foldstate, poller, registrar, activity, scope>>

\* a descriptor was constructed, with a name or without
InitNames ==
    /\ InitFoldState /\ InitIdle /\ InitPoller
    /\ registrar = Registrar("polling", FALSE, 0)
    /\ activity = NoActivity
    /\ scope = NoScope
    /\ \E o \in Objects : naming = [heap |-> <<o>>, call |-> NoCall]

NextNames == SetAlternateName

SpecNames == InitNames /\ [][NextNames]_vars

\* ------------------------------------------------ task.py: the activities
TypeError == [raised |-> "TypeError"]

\* what an activity returns: a value json.dumps encodes into a text of some
\* length, or one it cannot encode
Values ==
    {[encodable |-> FALSE, v |-> 0, size |-> 0]}
    \cup {[encodable |-> TRUE, v |-> 0, size |-> l] : l \in {1, ResultSize + 1}}

\* serialize_result = json.dumps
serialize_result(value) ==
    IF value.encodable
    THEN [tag |-> "json", v |-> value.v, len |-> value.size]
    ELSE TypeError

Response(call, token, payload) ==
    [call |-> call, token |-> token, payload |-> payload]
\* the call of the client raised SWFResponseError or not
Answered(ack) == IF ack THEN "True" ELSE "False"

\* activity_fail: respond_activity_task_failed(reason=str(reason)[:256])
activity_fail(self, reason, ack) ==
    [self EXCEPT
        !.sent = Append(@, Response("respond_activity_task_failed",
                                    self.token, Truncate(reason))),
        !.returned = Answered(ack)]

\* activity_finish: a result that does not serialize is logged, any other
\* is sent whole: respond_activity_task_completed(result=str(result))
activity_finish(self, result, ack) ==
    LET text == serialize_result(result)
    IN  IF text = TypeError THEN [self EXCEPT !.returned = "False"]
        ELSE [self EXCEPT
                 !.sent = Append(@, Response("respond_activity_task_completed",
                                             self.token, text)),
                 !.returned = Answered(ack)]

ActivityAt(at) ==
    /\ activity.pc = at
    /\ UNCHANGED <<rtstate, foldstate, poller, registrar, naming, scope>>

\* SWFActivity.__init__: a task was polled
NewActivity ==
    /\ ActivityAt("idle") /\ activity.token < MaxTasks
    /\ activity' = [activity EXCEPT !.pc = "called", !.token = @ + 1,
                                    !.outcome = "", !.result = NoPayload,
                                    !.returned = ""]

\* Task.__call__: the input does not deserialize
DeserializeFails ==
    /\ ActivityAt("called")
    /\ activity' = [activity EXCEPT !.pc = "idle", !.outcome = "unrun",
                                    !.returned = "False"]

\* Task.__call__: run returns a value, _finish
RunReturns ==
    /\ ActivityAt("called")
    /\ \E value \in Values, ack \in BOOLEAN :
        activity' = activity_finish(
            [activity EXCEPT !.pc = "idle", !.outcome = "value",
                             !.result = [tag |-> "value", v |-> value.v,
                                         len |-> value.size]],
            value, ack)

\* Task.__call__: run raises an exception, _fail
RunRaises ==
    /\ ActivityAt("called")
    /\ \E e \in Messages("error"), ack \in BOOLEAN :
        activity' = activity_fail(
            [activity EXCEPT !.pc = "idle", !.outcome = "exception",
                             !.result = e],
            e, ack)

\* Task.__call__: run raises SuspendTask, _suspend returns True
RunSuspends ==
    /\ ActivityAt("called")
    /\ activity' = [activity EXCEPT !.pc = "idle", !.outcome = "suspend",
                                    !.returned = "True"]

NextActivity ==
    \/ NewActivity
    \/ DeserializeFails
    \/ RunReturns
    \/ RunRaises
    \/ RunSuspends

SpecActivity == InitFold /\ [][NextActivity]_vars

\* ------------------------------------------- task.py: the options scopes
\* the tag lists a workflow is given
TagLists == {<<>>, <<"red">>, <<"blue">>}
\* the default of the arguments of options
_sentinel == <<"_sentinel">>

\* options, from the yield on: when the body of the with statement ends,
\* self._tags = old_tags runs; when an exception leaves it, the generator
\* is resumed by that exception at the yield and the assignment is skipped
leave(self, how) ==
    LET old_tags == self.frames[Len(self.frames)]
        now == IF how = "normal" THEN old_tags ELSE self._tags
    IN  [self EXCEPT !.frames = SubSeq(@, 1, Len(@) - 1),
                     !._tags = now,
                     !.exited = [how |-> how, before |-> old_tags,
                                 after |-> now]]

InBody ==
    /\ scope.at = "body"
    /\ UNCHANGED <<rtstate, foldstate, poller, registrar, naming, activity>>

\* _SWFWorkflow.__init__: self._tags = tags
Construct ==
    /\ scope.at = "new"
    /\ \E tags \in TagLists : scope' = [scope EXCEPT !.at = "body", !._tags = tags]
    /\ UNCHANGED <<rtstate, foldstate, poller, registrar, naming, activity>>

\* options, up to the yield: old_tags = self._tags, and the tags given
\* replace them
EnterOptions ==
    /\ InBody /\ ~scope.raising /\ scope.entered < MaxScopes
    /\ \E tags \in TagLists \cup {_sentinel} :
        scope' = [scope EXCEPT
                     !.frames = Append(@, scope._tags),
                     !._tags = IF tags # _sentinel THEN tags ELSE @,
                     !.entered = @ + 1,
                     !.exited = NoExit]

\* the body of the with statement ends
ExitOptions ==
    /\ InBody /\ ~scope.raising /\ scope.frames # <<>>
    /\ scope' = leave(scope, "normal")

\* the body raises an exception
Raise ==
    /\ InBody /\ ~scope.raising
    /\ scope' = [scope EXCEPT !.raising = TRUE, !.exited = NoExit]

\* the exception leaves the innermost open scope
ExitByException ==
    /\ InBody /\ scope.raising /\ scope.frames # <<>>
    /\ scope' = leave(scope, "exception")

\* the body catches the exception where it is
Catch ==
    /\ InBody /\ scope.raising
    /\ scope' = [scope EXCEPT !.raising = FALSE]

\* restart: self._scheduler.restart(self._spec, input, self._tags)
RestartInScope ==
    /\ InBody /\ ~scope.raising /\ ~scope.restarted
    /\ scope' = [scope EXCEPT !.restarted = TRUE, !.carried = scope._tags]

\* Task.__call__: the exception leaves run
RunFails ==
    /\ InBody /\ scope.raising /\ scope.frames = <<>>
    /\ scope' = [scope EXCEPT !.at = "failed"]

NextOptions ==
    \/ Construct
    \/ EnterOptions
    \/ ExitOptions
    \/ Raise
    \/ ExitByException
    \/ Catch
    \/ RestartInScope
    \/ RunFails

SpecOptions == InitFold /\ [][NextOptions]_vars

\* ------------------------------------------ backend/swf.py: the polling
\* the events of a history of n pages, each named by its page; the first
\* page of a response can be empty, its first event on the second page
Events(n, empty) ==
    [i \in 1..(n - (IF empty THEN 1 ELSE 0)) |-> i + (IF empty THEN 1 ELSE 0)]
PageHolds(page, empty) == ~(page = 1 /\ empty)

\* variant: one more attempt than the loop allows
MayTryOnceMore(attempt) == attempt <= PageRetries

\* for _ in range(7): another attempt is left
MayTry(attempt) == attempt < PageRetries

\* events(): the page at hand holds an event not yet yielded
Yields ==
    /\ PageHolds(poller.page, poller.empty)
    /\ \A i \in 1..Len(poller.seen) : poller.seen[i] # poller.page
\* events(): the page at hand is exhausted and names a next page
Continues == ~Yields /\ poller.page < poller.pages
Polling(S) ==
    /\ registrar.pc = "polling" /\ poller.pc \in S
    /\ UNCHANGED <<rtstate, foldstate, registrar, naming, activity, scope>>

\* poll_first_page returned a response with a task token: a history of some
\* pages, the first of them possibly empty
PollFirstPage ==
    /\ Polling({"poll"}) /\ poller.polls < MaxPolls
    /\ \E n \in 1..MaxPages, empty \in BOOLEAN :
        /\ empty => n > 1
        /\ poller' = [pc |-> "first", pages |-> n, empty |-> empty, page |-> 1,
                      attempt |-> 0, worst |-> 0, seen |-> <<>>,
                      polls |-> poller.polls + 1, responded |-> 0,
                      domain |-> poller.domain,
                      task_list |-> poller.task_list]

\* poll_first_page: an error or an empty response, and it polls again
PollFirstPageFails ==
    /\ Polling({"poll"})
    /\ UNCHANGED poller

\* next(all_events) in poll_next_decision, or the loop of load_events, takes
\* the next event; the first one is WorkflowExecutionStarted
NextEvent ==
    /\ Polling({"first", "fold"}) /\ Yields
    /\ poller' = [poller EXCEPT !.seen = Append(@, poller.page), !.pc = "fold"]

\* poll_response_page: an attempt fails with SWFResponseError
FetchPageFails ==
    /\ Polling({"first", "fold"}) /\ Continues
    /\ MayTry(poller.attempt)
    /\ poller' = [poller EXCEPT !.attempt = @ + 1,
                                !.worst = Max(@, poller.attempt + 1)]

\* poll_response_page: an attempt returns the page
FetchPage ==
    /\ Polling({"first", "fold"}) /\ Continues
    /\ MayTry(poller.attempt)
    /\ poller' = [poller EXCEPT !.page = @ + 1, !.attempt = 0]

\* poll_response_page: every attempt failed and _PaginationError is raised.
\* Inside load_events it is caught by poll_next_decision, which calls itself
\* with domain and task_list exchanged; inside next(all_events) nothing
\* catches it and it leaves poll_next_decision and the worker loop
PaginationError ==
    /\ Polling({"first", "fold"}) /\ Continues
    /\ ~MayTry(poller.attempt)
    /\ poller' = IF poller.pc = "fold"
                 THEN [poller EXCEPT !.pc = "retry",
                                     !.domain = poller.task_list,
                                     !.task_list = poller.domain]
                 ELSE [poller EXCEPT !.pc = "escaped"]

\* poll_next_decision(layer1, task_list, domain, identity): poll_first_page
\* polls a domain named after the task list, gets SWFResponseError and
\* polls again
PollSwapped ==
    /\ Polling({"retry"})
    /\ UNCHANGED poller

\* events() is exhausted: load_events returns and poll_next_decision builds
\* the SWFWorkflowContext
ReturnContext ==
    /\ Polling({"fold"}) /\ ~Yields /\ ~Continues
    /\ poller' = [poller EXCEPT !.pc = "run"]

\* registry(context): the workflow runs and its context flushes
RunWorkflow ==
    /\ Polling({"run"})
    /\ poller' = [poller EXCEPT !.pc = "poll", !.responded = @ + 1]

NextPoll ==
    \/ PollFirstPage
    \/ PollFirstPageFails
    \/ NextEvent
    \/ FetchPageFails
    \/ FetchPage
    \/ PaginationError
    \/ PollSwapped
    \/ ReturnContext
    \/ RunWorkflow

SpecPoll == InitFold /\ [][NextPoll]_vars

NextWorker ==
    \/ try_register_remote
    \/ check_remote
    \/ StartPolling
    \/ NextPoll

SpecWorker == InitWorker /\ [][NextWorker]_vars

\* ================================================================== claims
\* ------------------------------------------------------- the call-id cursor
\* ids a call with these parameters takes: the first attempt, the timer of a
\* positive delay, one per retry
Width(cs) == 1 + (IF cs.delay > 0 THEN 1 ELSE 0) + cs.retry

\* c_k: the widths of the calls the body makes before its k-th call
RECURSIVE WindowStart(_)
WindowStart(k) == IF k <= 1 THEN 0 ELSE WindowStart(k - 1) + Width(prog[k - 1])

\* C1: a call entered with cursor c0, retry r and delay d leaves the cursor at
\* c0 + 1 + [d > 0] + r whichever way _schedule is left, so the k-th call of a
\* turn starts at c_k, the sum of the widths of the calls before it, whatever
\* the snapshot holds.
C1_CursorAdvance ==
    /\ last.k > 0 =>
        /\ last.cursor = last.c0 + 1 + (IF last.delay > 0 THEN 1 ELSE 0)
                         + last.retry
        /\ last.c0 = WindowStart(last.k)
    /\ phase = "body" => _call_id = WindowStart(pc)

\* a delayed, retried call left at its timer step, with the timer decision
\* just appended: the search never ran and the cursor still moved by 2 + r
C1_Witness ==
    /\ last.k > 0 /\ last.delay > 0 /\ last.retry > 0
    /\ last.from = None /\ last.emit # <<>>
    /\ last.cursor = last.c0 + 2 + last.retry

\* --------------------------------------------------------- the call outcome
PastTimer == last.k > 0 /\ last.from # None
Window == last.from..(last.from + last.retry)
Live == {i \in Window : i \notin _timedout}
FirstLive == CHOOSE i \in Live : \A j \in Live : i <= j
ScheduleType ==
    IF prog[last.k].kind = "activity"
    THEN "ScheduleActivityTask" ELSE "StartChildWorkflowExecution"
Quiet == last.emit = <<>> /\ ~last.sched
Emitted(id) ==
    /\ Len(last.emit) = 1
    /\ last.emit[1].type = ScheduleType /\ last.emit[1].id = id

\* the outcome of the last call, given what a call that finds its first live
\* id in no bucket must have appended
Outcome(appended) ==
    IF Live = {} THEN
        /\ last.state = TIMEDOUT /\ Quiet
        /\ InOrder(last.from + last.retry)
        /\ last.order = OrderIndex(last.from + last.retry)
    ELSE IF FirstLive \in _running THEN
        last.state = RUNNING /\ Quiet
    ELSE IF FirstLive \in DOMAIN _errors THEN
        /\ last.state = ERROR /\ Quiet
        /\ last.value = _errors[FirstLive]
        /\ InOrder(FirstLive) /\ last.order = OrderIndex(FirstLive)
    ELSE IF FirstLive \in DOMAIN _results THEN
        /\ last.state = FOUND /\ Quiet
        /\ last.value = _results[FirstLive]
        /\ InOrder(FirstLive) /\ last.order = OrderIndex(FirstLive)
    ELSE
        /\ last.state = RUNNING /\ last.sched /\ _scheduled
        /\ last.at = FirstLive
        /\ appended

\* C2 as stated: the first id of the window c..c+r not in timedout decides the
\* outcome; running suspends with no decision, errors and results give the
\* value and order.index(id), an id in no bucket gets a schedule decision for
\* exactly that id, sets scheduled and suspends; a window all timed out is a
\* Timeout with the order index of c+r and no decision.
C2_Original == PastTimer => Outcome(Emitted(FirstLive))

\* C2: as above, except that the schedule decision for the id is appended
\* only while the buffer holds fewer decisions than the turn's rate budget;
\* with the budget used up nothing is appended, scheduled is still set and
\* the call still suspends.
C2_SearchOutcome ==
    PastTimer => Outcome(IF last.room THEN Emitted(FirstLive)
                         ELSE last.emit = <<>>)

\* a retried call whose first attempt timed out schedules its second id
C2_Witness ==
    /\ PastTimer /\ last.retry > 0
    /\ last.from \in _timedout
    /\ Emitted(last.from + 1)

\* ------------------------------------------------------- the end of a turn
HasTerminal(ds) == \E i \in 1..Len(ds) : ds[i].type \in Terminal
ReturnedValue == phase = "done" /\ ret.how = "value"
ReturnedWrapper == phase = "done" /\ ret.how = "wrapper"

\* C3 as stated: when the body returns a value that is no wrapper, the
\* response holds CompleteWorkflowExecution(encode(R)) if and only if the
\* scheduled flag was not set during the turn and running was empty at its
\* start; otherwise it holds only the accumulated scheduling decisions and no
\* terminal decision.
C3_Original ==
    ReturnedValue =>
        /\ Len(sent) = 1
        /\ IF ~ret.scheduled /\ _running = {}
           THEN sent[1].decisions = complete_decisions(ret.payload)
           ELSE ~HasTerminal(sent[1].decisions)

\* the body returned a value json.dumps rejects, with nothing scheduled and
\* nothing running: the turn ended and no response was sent
C3_Unencodable ==
    /\ ReturnedValue /\ ~ret.serial
    /\ ~ret.scheduled /\ _running = {}
    /\ sent = <<>>

\* C4 as stated: when the body returns an Error or Timeout wrapper the
\* response is a single FailWorkflowExecution whose reason is the message of
\* the wrapper's TaskError, whatever was scheduled this turn or is running.
C4_Original ==
    ReturnedWrapper =>
        /\ Len(sent) = 1
        /\ sent[1].decisions =
               <<Decision("FailWorkflowExecution", None, "", 0, ret.payload)>>

\* C4: when the body returns an Error or Timeout wrapper the response is a
\* single FailWorkflowExecution whose reason is the first 256 characters of
\* the message of the wrapper's TaskError, whatever was scheduled this turn
\* or is running; unless restart() already sent the turn's response, which
\* stays the single ContinueAsNewWorkflowExecution.
C4_WrapperFails ==
    ReturnedWrapper =>
        /\ Len(sent) = 1
        /\ Len(sent[1].decisions) = 1
        /\ LET d == sent[1].decisions[1]
           IN  IF ret.flushed
               THEN d.type = "ContinueAsNewWorkflowExecution"
               ELSE /\ d.type = "FailWorkflowExecution"
                    /\ d.payload.tag = ret.payload.tag
                    /\ d.payload.len = Min(ret.payload.len, ReasonSize)

\* a wrapper returned after a call appended its decision, with other calls
\* still running: the response is the Fail alone
C4_Witness ==
    /\ ReturnedWrapper /\ ~ret.flushed
    /\ last.emit # <<>> /\ _running # {}
    /\ Len(sent) = 1 /\ sent[1].decisions[1].type = "FailWorkflowExecution"

\* ------------------------------------------------------ the decision buffer
\* C5: respond_decision_task_completed is called at most once for a buffer;
\* whatever is done after the first flush sends nothing, and a send that
\* failed leaves the buffer closed and is not repeated.
C5_RespondOnce ==
    /\ Len(sent) <= 1
    /\ _closed <=> Len(sent) = 1

\* restart() flushed and the send failed; the body then made a call that
\* appended a decision and ended, which flushed again: still one send
C5_Witness ==
    /\ phase = "done" /\ ret.flushed
    /\ Len(sent) = 1 /\ ~sent[1].ok
    /\ Len(_decisions) = 2

\* C6: a response holding a terminal decision holds that decision alone: the
\* timer, activity and child workflow decisions appended before it in the turn
\* are discarded and no response holds two terminal decisions.
C6_TerminalAlone ==
    \A i \in 1..Len(sent) :
        HasTerminal(sent[i].decisions) => Len(sent[i].decisions) = 1

\* a call appended a decision, then the body raised: the response is the
\* Fail alone
C6_Witness ==
    /\ phase = "done" /\ ret.how = "raise" /\ ~ret.flushed
    /\ last.emit # <<>>
    /\ Len(sent) = 1 /\ HasTerminal(sent[1].decisions)

\* ------------------------------------------------------------ the rate limit
Scheduling(ds) == Cardinality({j \in 1..Len(ds) : ds[j].type \notin Terminal})
Budget == Max(0, RateLimit - Cardinality(_running))

\* C7: the scheduling decisions of a turn's response and the calls running
\* when the turn started are at most 64 together; the budget of a turn is
\* max(0, 64 - |running|).
C7_RateBudget ==
    /\ \A i \in 1..Len(sent) :
        /\ Scheduling(sent[i].decisions) + Cardinality(_running) <= RateLimit
        /\ Scheduling(sent[i].decisions) <= Budget
    /\ phase = "body" /\ ~_closed => Len(_decisions) <= Budget
    /\ phase = "body" /\ ~_closed /\ last.k > 0 =>
           (last.room <=> Len(_decisions) - Len(last.emit) < Budget)

\* 63 calls running and one decision in the response: the limit is met
C7_Witness ==
    /\ Len(sent) = 1 /\ Scheduling(sent[1].decisions) = 1
    /\ Cardinality(_running) = RateLimit - 1

Unscheduled(id) ==
    /\ id \notin _running \cup _timedout
    /\ id \notin DOMAIN _results \cup DOMAIN _errors
    /\ \A d \in pending : d.id # id

\* C8: a scheduling attempt made with the budget used up appends nothing and
\* raises nothing; the call stays unscheduled, and in a later turn with budget
\* left the same call appends its decision with the call id it was dropped
\* with.
C8_SilentDrop ==
    /\ last.k > 0 /\ last.sched /\ ~last.room =>
           last.emit = <<>> /\ last.state = RUNNING
    /\ \A e \in dropped \cup dropping : Unscheduled(e[2])
    /\ last.k > 0 /\ last.redo # {} =>
           /\ last.redo = {last.at} /\ last.sched
           /\ last.room => Len(last.emit) = 1 /\ last.emit[1].id = last.at

\* a call dropped in an earlier turn appends its decision, with the same id
C8_Witness ==
    /\ last.k > 0 /\ last.redo # {}
    /\ Len(last.emit) = 1 /\ last.emit[1].id \in last.redo

\* ------------------------------------------------------ the folded snapshot
Disjoint(a, b) == a \cap b = {}
BucketsDisjoint ==
    /\ Disjoint(running, timedout)
    /\ Disjoint(running, DOMAIN results)
    /\ Disjoint(running, DOMAIN errors)
    /\ Disjoint(timedout, DOMAIN results)
    /\ Disjoint(timedout, DOMAIN errors)
    /\ Disjoint(DOMAIN results, DOMAIN errors)
FiredTimers == {k \in DOMAIN results : EndsWithT(k)}
Finalized == timedout \cup DOMAIN results \cup DOMAIN errors
Count(seq, k) == Cardinality({i \in 1..Len(seq) : seq[i] = k})
IsCall(k) == ~EndsWithT(k)

Completions == {"ActivityTaskCompleted", "ChildWorkflowExecutionCompleted"}
Failures == {"ActivityTaskFailed", "ChildWorkflowExecutionFailed"}
TimeOuts == {"ActivityTaskTimedOut", "ChildWorkflowExecutionTimedOut"}
Rejections == {"ScheduleActivityTaskFailed",
               "StartChildWorkflowExecutionFailed"}

\* the event just read closes call k: k leaves running, is appended to order
\* and enters the bucket of the event's type with the event's value; no other
\* key moves
MovesOut(k, n) ==
    /\ k \in running /\ running' = running \ {k}
    /\ order' = Append(order, k)
    /\ k \notin timedout \cup DOMAIN results \cup DOMAIN errors
    /\ event'.type \in Completions =>
           /\ results' = (k :> ResultOf(n)) @@ results
           /\ UNCHANGED <<timedout, errors>>
    /\ event'.type \in Failures =>
           /\ errors' = (k :> ReasonOf(n)) @@ errors
           /\ UNCHANGED <<timedout, results>>
    /\ event'.type \in TimeOuts =>
           /\ timedout' = timedout \cup {k}
           /\ UNCHANGED <<results, errors>>

\* C11: folding a Completed, Failed or TimedOut event of an activity or of a
\* child workflow moves exactly the call id the event resolves to out of
\* running into results, errors or timedout, with the event's result or
\* reason, appends it to order, and leaves every other call id where it was.
C11_FoldMoves ==
    [][event'.type \in Completions \cup Failures \cup TimeOuts =>
           MovesOut(CallKey(event'.n), event'.n)]_vars

\* a call failed while another call is running and a fired timer is in
\* results
C11_Witness ==
    /\ event.type \in Failures
    /\ CallKey(event.n) \in DOMAIN errors
    /\ running # {} /\ FiredTimers # {}

\* ------------------------------------------------------ rejected decisions
\* the service rejected the decision that scheduled id
Rejected(id) == id \in DOMAIN _errors /\ _errors[id] = CauseOf(id)

C13_Original ==
    [][event'.type = "TimerFired" =>
           LET tk == _timer_key(CallKey(event'.n))
           IN  /\ foldError' = ""
               /\ running' = running \ {tk}
               /\ results' = (tk :> None) @@ results
               /\ order' = Append(order, tk)
               /\ UNCHANGED <<timedout, errors>>]_vars

\* a TimerFired whose timer was never started ended the fold with a KeyError
C13_UnknownTimer ==
    /\ event.type = "TimerFired" /\ foldError = "KeyError"
    /\ life[event.n].st = "new"

\* ------------------------------------------------------- the pending timer
\* call keys whose timer is started and has not fired
PendingTimers == {n \in Keys : life[n].st = "timer"}
Mangled(S) == {k \in S : EndsWithT(k)}

StartsTimer ==
    /\ last.k # 0 /\ last.delay > 0
    /\ last.c0 \notin _running /\ last.c0 \notin DOMAIN _results

\* C15 as stated: a call with a positive delay entered at cursor c, with no
\* pending and no fired timer for c in the snapshot, appends exactly one
\* decision, a StartTimer with timer id "<c>:t" and the delay as its
\* start-to-fire timeout, sets the scheduled flag and is left running.
C15_Original ==
    StartsTimer =>
        /\ Len(last.emit) = 1
        /\ last.emit[1].type = "StartTimer"
        /\ WireId(last.emit[1]) = _timer_key(CallKey(last.c0))
        /\ last.emit[1].delay = last.delay
        /\ last.sched /\ last.state = RUNNING

\* the call appended a StartTimer whose timer id is the call id alone, an
\* id that _timer_call_key does not accept
C15_BareTimerId ==
    /\ StartsTimer
    /\ Len(last.emit) = 1 /\ last.emit[1].type = "StartTimer"
    /\ WireId(last.emit[1]) = str(last.c0)
    /\ ~EndsWithT(WireId(last.emit[1]))
    /\ last.sched /\ last.state = RUNNING

\* the timer the last call started in an earlier turn has not fired
TimerPending == last.k # 0 /\ last.delay > 0 /\ last.c0 \in timers

TimerFiredInHistory ==
    event.type = "return" /\ \E n \in Keys : _timer_key(CallKey(n)) \in DOMAIN results

\* C17 as stated needs a next turn: once the history holds TimerStarted and
\* TimerFired for the timer of a delayed call, the runtime of the next turn
\* is built from the folded snapshot and finds the fired timer in results.
C17_Original ==
    TimerFiredInHistory => foldError = "" /\ \A k \in DOMAIN results : IsInt(k)

\* the folded snapshot holds the timer id "<c>:t" as a key of results, and
\* int() of _SWFWorkflow.__init__ raises ValueError on it
C17_SnapshotRejected ==
    /\ TimerFiredInHistory
    /\ foldError = "ValueError"
    /\ \E k \in DOMAIN results : EndsWithT(k) /\ ~IsInt(k)

\* the last call finds its timer fired and no attempt known
AfterFired ==
    /\ last.k # 0 /\ last.delay > 0
    /\ last.c0 \in DOMAIN _results
    /\ \A id \in (last.c0 + 1)..(last.c0 + 1 + last.retry) :
           id \notin _timedout \cup _running \cup DOMAIN _errors \cup DOMAIN _results

\* the runtime alone, on a snapshot whose results holds the integer call id
\* of the fired timer: the scan starts at c + 1, and with room in the buffer
\* the one decision appended schedules id c + 1; the cursor is c + 2 + r
AfterFiredSchedules ==
    AfterFired =>
        /\ last.from = last.c0 + 1 /\ last.at = last.c0 + 1
        /\ last.state = RUNNING /\ last.sched
        /\ last.cursor = last.c0 + 2 + last.retry
        /\ IF last.room
           THEN /\ Len(last.emit) = 1
                /\ last.emit[1].type = ScheduleType
                /\ last.emit[1].id = last.c0 + 1
           ELSE last.emit = <<>>

\* ------------------------------------------------- the child workflow's id
\* the child workflow decisions in the buffer
ChildStarts ==
    {_decisions[i] : i \in {j \in 1..Len(_decisions) :
                               _decisions[j].type = "StartChildWorkflowExecution"}}

\* C18 as stated: the workflowId of every StartChildWorkflowExecution
\* decision ends, after its last ':', with the call id of the invocation
\* that created it, and _subworkflow_call_key recovers that call id from it.
C18_Original ==
    \A d \in ChildStarts :
        /\ Cuts(WireId(d), ":") # {}
        /\ _subworkflow_call_key(WireId(d)) = str(d.id)

\* the workflowId of a child workflow decision has no ':': the folder takes
\* the whole id, uuid included, for the call key, and it is not a number
C18_SuffixLost ==
    \E d \in ChildStarts :
        /\ Cuts(WireId(d), ":") = {}
        /\ _subworkflow_call_key(WireId(d)) = WireId(d)
        /\ WireId(d) # str(d.id)
        /\ ~IsInt(_subworkflow_call_key(WireId(d)))
        /\ _subworkflow_id(WireId(d)) = str(d.id)

\* ------------------------------------------------------------- determinism
\* the step is a call of the body, or a restart that replaces the buffer
CallStep == phase = "body" /\ pc' = pc + 1
RestartStep == phase = "body" /\ phase' = "body" /\ pc' = pc

\* what a second, independent turn in the same state appends for the same
\* call, its uuid4 returning u, and sends for the same restart, its set of
\* tags yielding the order tag_list
TwinCall(u) ==
    _schedule(last'.c0, prog'[last'.k].kind, last'.retry, last'.delay, u).emit
TwinRestart(tag_list) == restart_decisions(Serialize(0), tag_list)

\* a sequence of decisions without the uuid of its child workflow ids and
\* without the order of its tag lists
Erase(ds) ==
    [i \in 1..Len(ds) |->
        [ds[i] EXCEPT !.uuid = "", !.tag_list = SeqToSet(@)]]

Suspended == ret.how = "suspend"
Closing == {"FailWorkflowExecution", "CompleteWorkflowExecution"}

\* C20 as stated: when the body raises the Suspend sentinel the turn sends
\* the decisions accumulated so far, with no FailWorkflowExecution and no
\* CompleteWorkflowExecution among them.
C20_Original ==
    Suspended =>
        /\ Len(sent) = 1
        /\ sent[1].decisions = _decisions
        /\ \A i \in 1..Len(_decisions) : _decisions[i].type \notin Closing

\* C20: when the body raises the Suspend sentinel the turn sends the
\* decisions accumulated so far, unless restart() has sent the response of
\* the turn before: then that response, the single continue-as-new decision,
\* is the only one and the buffer is not sent; the response of the turn holds
\* neither FailWorkflowExecution nor CompleteWorkflowExecution.
C20_SuspendFlushes ==
    Suspended =>
        /\ Len(sent) = 1
        /\ \A i \in 1..Len(sent[1].decisions) :
               sent[1].decisions[i].type \notin Closing
        /\ IF ret.flushed
           THEN /\ Len(sent[1].decisions) = 1
                /\ sent[1].decisions[1].type = "ContinueAsNewWorkflowExecution"
           ELSE sent[1].decisions = _decisions

\* the body made a call that appended a decision and raised Suspend: the
\* decision was sent and the service took it
C20_Witness ==
    /\ Suspended /\ ~ret.flushed
    /\ Len(sent) = 1 /\ sent[1].ok
    /\ Len(sent[1].decisions) = 1
    /\ sent[1].decisions[1].type = "ScheduleActivityTask"
    /\ sent[1].decisions[1] \in pending

\* ---------------------------------------------------------- the failed turn
Raised == phase = "done" /\ ret.how = "raise"

\* C21 as stated: when the body raises an exception other than Suspend the
\* response of the turn is a single FailWorkflowExecution whose reason is the
\* first 256 characters of the message; the scheduling decisions appended
\* before are not sent.
C21_Original ==
    Raised =>
        /\ Len(sent) = 1
        /\ sent[1].decisions = fail_decisions(ret.payload)

\* C21: when the body raises an exception other than Suspend the response of
\* the turn is a single FailWorkflowExecution whose reason is the first 256
\* characters of the message, and the scheduling decisions appended before
\* are not sent; unless restart() has sent the response of the turn before,
\* which stays the single ContinueAsNewWorkflowExecution.
C21_RaiseFails ==
    Raised =>
        /\ Len(sent) = 1
        /\ IF ret.flushed
           THEN /\ Len(sent[1].decisions) = 1
                /\ sent[1].decisions[1].type = "ContinueAsNewWorkflowExecution"
           ELSE /\ sent[1].decisions = fail_decisions(ret.payload)
                /\ sent[1].decisions[1].payload.len <= ReasonSize
                /\ _decisions = sent[1].decisions

\* the body raised an exception with a message of 257 characters after a
\* call had appended its decision: the Fail alone was sent, its reason cut
C21_Witness ==
    /\ Raised /\ ~ret.flushed
    /\ last.emit # <<>>
    /\ ret.payload.len > ReasonSize
    /\ Len(sent) = 1 /\ Len(sent[1].decisions) = 1
    /\ sent[1].decisions[1].type = "FailWorkflowExecution"
    /\ sent[1].decisions[1].payload.len = ReasonSize

\* ------------------------------------------------- the serialization error
\* the body returned a value, _finish tried to encode it (nothing scheduled,
\* nothing running) and json.dumps raised TypeError
EncodingFailed ==
    /\ ReturnedValue /\ ~ret.serial
    /\ ~ret.scheduled /\ _running = {}

\* C22 as stated, for the return value: when encoding fails inside a turn
\* the response of the turn is a FailWorkflowExecution.
C22_Original ==
    EncodingFailed =>
        /\ Len(sent) = 1
        /\ Len(sent[1].decisions) = 1
        /\ sent[1].decisions[1].type = "FailWorkflowExecution"

\* the decision task was dispatched again after a turn that sent nothing,
\* and the turn ended once more on the encoding error with no response and
\* the workflow still open
C22_NoResponse ==
    /\ EncodingFailed /\ turn > 1
    /\ sent = <<>> /\ ~_closed
    /\ pending = {} /\ ~wfClosed

\* ------------------------------------------------------------- the restart
\* restart() has sent the response of the turn
Restarted ==
    /\ sent # <<>> /\ sent[1].decisions # <<>>
    /\ sent[1].decisions[1].type = "ContinueAsNewWorkflowExecution"

C24_Pagination ==
    /\ poller.attempt <= 7 /\ poller.worst <= 7
    /\ poller.pc \in {"retry", "escaped"} =>
           /\ poller.attempt = 7 /\ poller.responded = 0
    /\ poller.pc = "run" \/ poller.responded > 0 =>
           /\ poller.seen = Events(poller.pages, poller.empty)
           /\ poller.worst < 7
           /\ poller.responded <= 1
    /\ \A i \in 1..Len(poller.seen) :
           poller.seen[i] = Events(poller.pages, poller.empty)[i]

\* a history of three pages was folded whole after six failed attempts to
\* fetch one of its pages
C24_Witness ==
    /\ poller.pc = "run"
    /\ poller.worst = 6
    /\ poller.seen = <<1, 2, 3>>

\* C25: a PaginationError is local to the turn: on whichever continuation
\* page it occurs, the page that holds the first event after an empty first
\* page included, it is handled inside the polling step and never leaves
\* the worker loop.
C25_Original == poller.pc # "escaped"

\* the first page was empty, the seven attempts to fetch the page that holds
\* the first event failed, and the error left the worker loop
C25_Escaped ==
    /\ poller.pc = "escaped"
    /\ poller.empty /\ poller.page = 1 /\ poller.seen = <<>>
    /\ poller.attempt = 7

\* --------------------------------------------------------- the registration
Called(call) == \E i \in 1..Len(registrar.calls) : registrar.calls[i] = call
Compared == registrar.remote # Unset
Differs ==
    \/ registrar.remote.defaultTaskList # registrar.wire.d_t_l
    \/ registrar.remote.defaultTaskStartToCloseTimeout # registrar.wire.d_d_d
    \/ registrar.remote.defaultExecutionStartToCloseTimeout
           # registrar.wire.d_w_d
    \/ registrar.remote.defaultChildPolicy # registrar.wire.d_c_p

\* C26: registering a type calls register_*_type first; describe_*_type is
\* called exactly when the service answered that the type exists; after the
\* describe, RegistrationError is raised exactly when a default field
\* differs from the remote configuration; an error of the service from
\* register or describe is raised as RegistrationError; a type registered
\* as new is never described.
C26_Registration ==
    /\ registrar.calls # <<>> => registrar.calls[1] = "register_workflow_type"
    /\ Len(registrar.calls) <= 2
    /\ Called("describe_workflow_type") <=>
           \/ registrar.pc # "check" /\ registrar.answer = "exists"
           \/ registrar.answer = "error" /\ Len(registrar.calls) = 2
    /\ Compared =>
           /\ Called("describe_workflow_type")
           /\ registrar.error = "_RegistrationError" <=> Differs
           /\ registrar.reason # "" <=> Differs
    /\ registrar.answer = "error" => registrar.error = "_RegistrationError"
    /\ registrar.answer = "new" =>
           /\ registrar.calls = <<"register_workflow_type">>
           /\ registrar.error = ""

\* a type that exists was described and only its child policy differs
C26_Witness ==
    /\ registrar.calls = <<"register_workflow_type", "describe_workflow_type">>
    /\ Compared
    /\ registrar.reason = "Default child policy"
    /\ registrar.error = "_RegistrationError"

\* C27: with remote registration enabled, a RegistrationError of any type
\* of the registry makes the workflow worker exit with code 1 and no
\* decision task is ever polled; the polling starts only when every type
\* of the registry was registered or passed the compatibility check.
C27_ExitBeforePolling ==
    /\ registrar.error = "_RegistrationError" =>
           /\ registrar.pc = "exit" /\ registrar.code = 1
           /\ poller.polls = 0 /\ poller.pc = "poll"
    /\ registrar.pc = "exit" => registrar.error = "_RegistrationError"
    /\ poller.polls > 0 => registrar.pc = "polling"
    /\ registrar.reg_remote /\ registrar.pc = "polling" =>
           registrar.left = 0 /\ registrar.error = ""

\* the first of two types passed, the second is incompatible and the worker
\* exited
C27_Witness ==
    /\ registrar.pc = "exit" /\ registrar.code = 1
    /\ registrar.types = 2 /\ registrar.left = 1
    /\ registrar.reason # ""
    /\ poller.polls = 0

\* ----------------------------------------------------------- the descriptors
SameDefaults(a, b) ==
    /\ a.version = b.version
    /\ a.default_task_list = b.default_task_list
    /\ a.default_workflow_duration = b.default_workflow_duration
    /\ a.default_decision_duration = b.default_decision_duration
    /\ a.default_child_policy = b.default_child_policy

\* C28: set_alternate_name on a descriptor without a name returns a new
\* descriptor with the given name and the same version and default fields
\* and leaves the name of the original unset; on a descriptor with a name
\* it returns that descriptor, its name unchanged.
C28_Cloned ==
    naming.call.self # 0 =>
        LET self == naming.call.self
            new == naming.call.ret
            before == naming.call.before
        IN  /\ \A o \in DOMAIN before : naming.heap[o] = before[o]
            /\ before[self].name = Unset =>
                   /\ new \notin DOMAIN before
                   /\ naming.heap[new].name = Given(naming.call.name)
                   /\ SameDefaults(naming.heap[new], before[self])
                   /\ naming.heap[self].name = Unset
            /\ before[self].name # Unset =>
                   /\ new = self
                   /\ naming.heap = before

\* a nameless descriptor with a task list was named after a factory
C28_Witness ==
    /\ naming.call.self = 1 /\ naming.call.ret = 2
    /\ naming.heap[1].name = Unset
    /\ naming.heap[2].name = Given("f")
    /\ naming.heap[2].default_task_list = Given("a")

\* ------------------------------------------------------------ the activities
\* the responses sent for the task at hand
Mine == SelectSeq(activity.sent, LAMBDA r : r.token = activity.token)
Completed ==
    {i \in 1..Len(Mine) : Mine[i].call = "respond_activity_task_completed"}
Failed ==
    {i \in 1..Len(Mine) : Mine[i].call = "respond_activity_task_failed"}
Ran == activity.pc = "idle" /\ activity.token > 0

\* C29: for an activity task the synchronous path sends
\* respond_activity_task_completed with the encoded value exactly when the
\* activity returns a value, respond_activity_task_failed with the text of
\* the exception exactly when it raises an exception other than Suspend,
\* nothing when it raises Suspend, and never both for one task.
C29_Original ==
    Ran =>
        /\ activity.outcome = "value" <=> Completed # {}
        /\ \A i \in Completed : Mine[i].payload.v = activity.result.v
        /\ activity.outcome = "exception" <=> Failed # {}
        /\ \A i \in Failed : Mine[i].payload = Truncate(activity.result)
        /\ activity.outcome = "suspend" => Mine = <<>>
        /\ Len(Mine) <= 1

\* the activity returned a value and no response was sent for the task
C29_NoResponse ==
    /\ Ran /\ activity.outcome = "value"
    /\ Mine = <<>> /\ activity.returned = "False"
    /\ activity.result.len = 0

\* C30: what is sent respects the size caps by truncation: a result of an
\* activity completion has at most 32768 characters and a reason of an
\* activity failure at most 256.
C30_Original ==
    \A i \in 1..Len(activity.sent) :
        /\ activity.sent[i].call = "respond_activity_task_completed" =>
               activity.sent[i].payload.len <= 32768
        /\ activity.sent[i].call = "respond_activity_task_failed" =>
               activity.sent[i].payload.len <= 256

\* a result of 32769 characters was sent whole
C30_Oversized ==
    \E i \in 1..Len(activity.sent) :
        /\ activity.sent[i].call = "respond_activity_task_completed"
        /\ activity.sent[i].payload.len = ResultSize + 1

\* ---------------------------------------------------------------- the scopes
\* C31: when an options scope is left, by the end of its body or by an
\* exception, the tags of the runtime are those from before the scope was
\* entered, and a restart issued after it carries them.
C31_Original ==
    /\ scope.exited.how # "" => scope.exited.after = scope.exited.before
    /\ scope.exited.how # "" /\ scope.restarted /\ scope.frames = <<>> /\ scope.at = "body"
           /\ scope._tags = scope.carried
           => scope.carried = scope.exited.before

\* a scope that set other tags was left by an exception, the body caught
\* it and restarted: the restart carries the tags of the scope
C31_NotRestored ==
    /\ scope.exited.how = "exception"
    /\ scope.exited.before = <<"red">> /\ scope.exited.after = <<"blue">>
    /\ scope.frames = <<>> /\ ~scope.raising
    /\ scope.restarted /\ scope.carried = <<"blue">>

\* ------------------------------------------------------ the poll after an error
\* C32: after a PaginationError abandoned a turn the worker polls again
\* for a decision task, with the domain and the task list of the abandoned
\* poll.
C32_Original ==
    /\ poller.pc # "escaped"
    /\ poller.pc = "retry" =>
           poller.domain = "domain" /\ poller.task_list = "list"

\* the fold of a history of two pages was abandoned and the next poll asks
\* the domain named after the task list
C32_SwappedPoll ==
    /\ poller.pc = "retry" /\ poller.seen = <<1>> /\ poller.attempt = 7
    /\ poller.domain = "list" /\ poller.task_list = "domain"

\* ------------------------------------------------------- the delays not positive
\* C33: a call whose delay is zero or negative appends no StartTimer, skips
\* the timer step, its attempts being searched from the first id of its
\* window, and reserves 1 + r ids.
C33_Original ==
    last.k > 0 /\ last.delay <= 0 =>
        /\ \A i \in 1..Len(last.emit) : last.emit[i].type # "StartTimer"
        /\ last.from = last.c0
        /\ last.cursor = last.c0 + 1 + last.retry

\* a call with delay -1 appended a StartTimer bearing the first id of a
\* window of 1 + r ids
C33_NegativeTimer ==
    /\ last.k > 0 /\ last.delay < 0
    /\ Len(last.emit) = 1 /\ last.emit[1].type = "StartTimer"
    /\ last.emit[1].id = last.c0 /\ last.emit[1].delay = last.delay
    /\ last.cursor = last.c0 + 1 + last.retry

InSnapshot(id) ==
    \/ id \in _running \/ id \in _timedout
    \/ id \in DOMAIN _results \/ id \in DOMAIN _errors

\* C35: no decision is emitted whose id is in running, timedout, results or
\* errors of the snapshot of the turn, so no id is put in a decision in two
\* turns of an execution: not one the service recorded, and not one it
\* refused.
C35_Original ==
    last.k > 0 =>
        \A i \in 1..Len(last.emit) :
            /\ ~InSnapshot(last.emit[i].id)
            /\ last.emit[i].id \notin refused

\* the second turn emits the StartTimer of a negative delay again, under
\* the id the first turn gave it: the snapshot does not hold the id
C35_TimerAgain ==
    /\ turn = 2 /\ last.k > 0 /\ last.delay < 0
    /\ Len(last.emit) = 1 /\ last.emit[1].type = "StartTimer"
    /\ last.emit[1].id \in refused
    /\ ~InSnapshot(last.emit[1].id)

\* ------------------------------------------------------ one decision a call
CallDecisions ==
    {"StartTimer", "ScheduleActivityTask", "StartChildWorkflowExecution"}
Appended == {i \in 1..Len(_decisions) : _decisions[i].type \in CallDecisions}

\* C36: within a turn a call appends at most one decision to the buffer:
\* one StartTimer, bearing the first id of the call, or one schedule
\* decision for one attempt, never both and never two attempts.
C36_OneDecision ==
    /\ last.k > 0 =>
           /\ Len(last.emit) <= 1
           /\ \A i \in 1..Len(last.emit) :
                  /\ last.emit[i].type \in CallDecisions
                  /\ last.emit[i].type = "StartTimer" =>
                         last.emit[i].id = last.c0 /\ last.from = None
                  /\ last.emit[i].type # "StartTimer" =>
                         last.emit[i].id = last.at /\ last.from # None
    /\ phase = "body" => Cardinality(Appended) <= pc - 1

\* a delayed, retried call met its timer for the first time: the buffer
\* holds the StartTimer and nothing else
C36_Witness ==
    /\ phase = "body" /\ last.k = 1 /\ last.delay > 0 /\ last.retry > 0
    /\ last.room /\ last.state = RUNNING
    /\ Len(_decisions) = 1 /\ _decisions[1].type = "StartTimer"
    /\ _decisions = last.emit

\* ------------------------------------------------------ the end of every turn
\* C37: every turn in which the body ran ends with exactly one call of
\* respond_decision_task_completed, whether the body returned a value or a
\* wrapper, suspended, raised, restarted, or returned what cannot be
\* encoded.
C37_Original == phase = "done" => Len(sent) = 1

\* the first turn of a body that makes no call ended on a value json.dumps
\* cannot encode and the worker polls again without having responded
C37_TurnWithoutResponse ==
    /\ phase = "done" /\ turn = 1 /\ pc = 1
    /\ ret.how = "value" /\ ~ret.serial /\ ~ret.flushed
    /\ sent = <<>> /\ _decisions = <<>>

\* ------------------------------------------- a workflow execution to its end
\* A body that makes the calls of prog and returns a value json.dumps
\* encodes, run turn after turn against a service that delivers every
\* response. Decision tasks past MaxTurns - 1 are dispatched and not counted.
DispatchTask ==
    /\ phase = "idle" /\ ~wfClosed /\ pending = {}
    /\ phase' = "body" /\ pc' = 1
    /\ turn' = IF turn + 1 < MaxTurns THEN turn + 1 ELSE turn
    /\ _call_id' = 0 /\ _scheduled' = FALSE
    /\ _decisions' = <<>> /\ _closed' = FALSE
    /\ _rate_limit' = RateLimit - Cardinality(_running)
    /\ UNCHANGED <<prog, snapshot, service, sent, last, ret, dropping, dropped>>
    /\ UNCHANGED foldvars

\* the body makes its next call unless the last one raised
BodyCalls == last.state # RAISED /\ (CallActivity \/ CallWorkflow)

\* run() has made its calls: it returns 42 and _finish completes the
\* workflow or flushes the buffer; the ValueError of a call leaves run() and
\* _fail fails the workflow
BodyEnds ==
    /\ phase = "body" /\ (pc > Len(prog) \/ last.state = RAISED)
    /\ IF last.state = RAISED
       THEN /\ _scheduled' = TRUE
            /\ _decisions' = fail_decisions([tag |-> "Exception", v |-> 0, len |-> 1])
            /\ flush(_decisions', TRUE)
            /\ EndTurn("raise", [tag |-> "Exception", v |-> 0, len |-> 1], TRUE)
       ELSE /\ IF CanComplete
               THEN /\ _decisions' = complete_decisions(Serialize(42))
                    /\ flush(_decisions', TRUE)
               ELSE /\ flush(_decisions, TRUE)
                    /\ UNCHANGED _decisions
            /\ UNCHANGED _scheduled
            /\ EndTurn("value", Serialize(42), TRUE)

\* the activities that were running when the execution is first seen
\* complete, their events recorded before the next decision task
SvcCompleteLoad ==
    /\ Idle
    /\ LET ids == {id \in _running : IsBulk(id)}
           n == Cardinality(ids)
       IN  /\ ids # {}
           /\ _running' = _running \ ids
           /\ _results' = [id \in ids |-> ResultOf(id)] @@ _results
           /\ _order' = _order \o [i \in 1..n |-> 1001 + i]
    /\ UNCHANGED <<_timedout, _errors, timers, pending, refused>>
    /\ Settled

SvcRecords == SvcAccept \/ SvcReject
SvcEnds == SvcComplete \/ SvcFail \/ SvcTimeOut \/ SvcCompleteLoad

NextLive ==
    \/ DispatchTask
    \/ Poll
    \/ BodyCalls
    \/ BodyEnds
    \/ SvcRecords
    \/ SvcEnds
    \/ SvcTimerFired

\* the worker loop runs and polls again; the service records every decision,
\* ends every activity and child workflow, fires every timer, and dispatches
\* a decision task after it
Fairness ==
    /\ WF_vars(DispatchTask) /\ WF_vars(Poll)
    /\ WF_vars(BodyCalls) /\ WF_vars(BodyEnds)
    /\ WF_vars(SvcRecords)
    /\ SF_vars(SvcEnds) /\ SF_vars(SvcTimerFired)

SpecLive == Init /\ [][NextLive]_vars /\ Fairness

\* C38: under fairness a workflow whose body makes finitely many calls with
\* finite retry budgets eventually has a terminal decision sent, also when
\* the rate cap drops some of its calls.
C38_Original == <>wfClosed

NegativeDelay == \E i \in 1..Len(prog) : prog[i].delay < 0

\* a turn after the service refused the timer of a call with a negative
\* delay: the same StartTimer was sent again and the workflow stays open
C38_TimerForever ==
    /\ phase = "done" /\ ~wfClosed /\ NegativeDelay
    /\ refused # {} /\ Len(sent) = 1 /\ sent[1].ok
    /\ \E i \in 1..Len(sent[1].decisions) :
          /\ sent[1].decisions[i].type = "StartTimer"
          /\ sent[1].decisions[i].id \in refused

\* every execution whose body passes no negative delay gets its terminal
\* decision
LiveButNegativeDelay == <>(wfClosed \/ NegativeDelay)
====
